---- MODULE Spec2Model ----
(***************************************************************************)
(* Draft-pick identity and valuation reconciliation of fn_app_backend.     *)
(*                                                                         *)
(* The module models the Fleaflicker ingestion pipeline                    *)
(* (player_manager_rosters_fleaflicker and the /roster handler), the       *)
(* resolver extract_all_fleaflicker_draft_picks, the ledger table          *)
(* dynastr.draft_picks and the aggregation query of                        *)
(* insert_fleaflicker_ranks_summary.  SQL tables are sets of records, a    *)
(* transaction is one atomic step, and every await between transactions is *)
(* a point where the platform and other steps may interleave.              *)
(***************************************************************************)
EXTENDS Integers, Sequences, FiniteSets, TLC

VARIABLES
    owned_by,           \* platform: original pick -> team that owns it now
    chain,              \* platform: original pick -> its owners so far, in order
    lists_lost,         \* platform: FetchTeamPicks also lists traded-away picks
    draft_picks,        \* table dynastr.draft_picks
    league_players,     \* table dynastr.league_players
    fleaflicker_teams,  \* table dynastr.fleaflicker_teams
    sf_player_ranks,    \* table dynastr.sf_player_ranks (valuation source)
    ranks_summary,      \* table dynastr.ranks_summary
    rankings,           \* rows fetched by summary_query in the current pass
    pc,                 \* position of the /roster request
    team_idx,           \* index of the team whose picks are fetched next
    seen_picks,         \* local seen_picks of the resolver
    all_draft_picks,    \* local draft_picks list of the resolver
    before,             \* history: ledger of the snapshot when the refresh began
    run_clean,          \* history: no fetch failed and no trade happened in this run
    last_run,           \* history: summary of the latest complete run, or NoRun
    reqs,               \* the concurrent /roster requests of one snapshot
    api_call,           \* one _make_api_call invocation: loop index, sleeps, outcome
    mfl,                \* the sync_mfl_league request: position, fetched picks, result
    team_picks,         \* a FetchTeamPicks response given to the resolver
    naming,             \* arguments and results of the canonical namer
    db_state,           \* db.py: the global pool, pool_lock and the get_db callers
    mfl_direct          \* handle_mfl_league_direct: roster tasks, connection, server

vars == <<owned_by, chain, lists_lost, draft_picks, league_players,
          fleaflicker_teams, sf_player_ranks, ranks_summary, rankings, pc,
          team_idx, seen_picks, all_draft_picks, before, run_clean, last_run,
          reqs, api_call, mfl, team_picks, naming, db_state, mfl_direct>>

(***************************************************************************)
(* Bounds and the platform's universe.                                     *)
(***************************************************************************)
MaxTrades == 2
MaxDup == 2

CurrentYear == 2025
RoundCeiling == 4

League == "L1"
Session == "S1"
RequestUser == "U1"

NULL == [isnull |-> TRUE]
NoRun == [norun |-> TRUE]

TeamIds == <<"T1", "T2", "T3">>
Teams == {TeamIds[i] : i \in 1..Len(TeamIds)}

\* standings: team -> owners[0]
StandingsOwner(t) ==
    CASE t = "T1" -> [id |-> "U1", displayName |-> "alice"]
      [] t = "T2" -> [id |-> "U2", displayName |-> "bob"]
      [] OTHER    -> [id |-> "U3", displayName |-> "carol"]

\* the original picks of the league that can still be traded: the next
\* season's second-round slot of the teams in PickTeams
PickTeams == <<"T1", "T2">>
PickSeq == [i \in 1..Len(PickTeams) |->
              [season |-> CurrentYear + 1, round |-> 2, original |-> PickTeams[i]]]
Picks == {PickSeq[i] : i \in 1..Len(PickSeq)}

\* table dynastr.players (loaded by the central player load, read-only here)
players == {
    [player_id |-> "101", full_name |-> "Quinn QB", player_position |-> "QB"],
    [player_id |-> "102", full_name |-> "Robin RB", player_position |-> "RB"],
    [player_id |-> "103", full_name |-> "Kim K",    player_position |-> "K"] }

\* FetchRoster: the players (by name) on each team's roster; T3's only player
\* is not in dynastr.players
PlatformRoster(t) ==
    CASE t = "T1" -> {"Quinn QB", "Robin RB"}
      [] t = "T2" -> {"Kim K"}
      [] OTHER    -> {"Nico New"}

(***************************************************************************)
(* Canonical Namer.                                                        *)
(***************************************************************************)
\* _get_round_suffix without the branch for 11, 12 and 13
_get_round_suffix_ByLastDigit(round_num) ==
    IF round_num % 10 = 1 THEN ToString(round_num) \o "st"
    ELSE IF round_num % 10 = 2 THEN ToString(round_num) \o "nd"
    ELSE IF round_num % 10 = 3 THEN ToString(round_num) \o "rd"
    ELSE ToString(round_num) \o "th"

_get_round_suffix(round_num) ==
    IF round_num \in {11, 12, 13} THEN ToString(round_num) \o "th"
    ELSE IF round_num % 10 = 1 THEN ToString(round_num) \o "st"
    ELSE IF round_num % 10 = 2 THEN ToString(round_num) \o "nd"
    ELSE IF round_num % 10 = 3 THEN ToString(round_num) \o "rd"
    ELSE ToString(round_num) \o "th"

\* the lookup key the aggregation builds: dp.year || ' ' || dp.round_name
PickName(dp) == dp.year \o " " \o dp.round_name

(***************************************************************************)
(* Relational helpers: SQL tables are sets of records, a joined row is a   *)
(* record with one field per joined table (NULL where a LEFT JOIN found no *)
(* match).                                                                 *)
(***************************************************************************)
\* a nullable SQL number: <<>> is NULL, <<v>> is the value v
NullNum == <<>>
Num(v) == <<v>>

RECURSIVE SumNonNull(_)
\* SUM(expr) over the rows in DOMAIN vals, vals[r] being expr on row r: NULL
\* when no row has a non-NULL value, else the sum of the non-NULL values
SumNonNull(vals) ==
    IF DOMAIN vals = {} THEN NullNum
    ELSE LET r == CHOOSE x \in DOMAIN vals : TRUE
             rest == SumNonNull([x \in DOMAIN vals \ {r} |-> vals[x]])
         IN IF vals[r] = NullNum THEN rest
            ELSE IF rest = NullNum THEN vals[r]
            ELSE Num(vals[r][1] + rest[1])

\* COALESCE that does not fall back on the default for a NULL sum
COALESCE_WithoutDefault(v, d) == IF v = NullNum THEN -1 ELSE v[1]

COALESCE(v, d) == IF v = NullNum THEN d ELSE v[1]

SkillPositions == {"QB", "RB", "WR", "TE"}

(***************************************************************************)
(* Valuation Aggregator: summary_query of insert_fleaflicker_ranks_summary *)
(***************************************************************************)
\* FROM fleaflicker_teams ft LEFT JOIN league_players lp LEFT JOIN players p
\* LEFT JOIN sf_player_ranks sfr LEFT JOIN draft_picks dp
\* LEFT JOIN sf_player_ranks sfr2 WHERE ft.league_id = $1 AND ft.session_id = $2
JoinedRows(ft_t, lp_t, dp_t, sfr_t, league_id, session_id) ==
    LET LeftJoin(rows, table, f, On(_, _)) ==
            UNION { IF \E r \in table : On(j, r)
                    THEN {[j EXCEPT ![f] = r] : r \in {x \in table : On(j, x)}}
                    ELSE {j} : j \in rows }
        j0 == {[ft |-> t, lp |-> NULL, p |-> NULL, sfr |-> NULL,
                dp |-> NULL, sfr2 |-> NULL] : t \in ft_t}
        OnLp(j, r) == /\ j.ft.owner_id = r.user_id
                      /\ r.league_id = league_id /\ r.session_id = session_id
        OnP(j, r) == j.lp # NULL /\ j.lp.player_id = r.player_id
        OnSfr(j, r) == /\ j.p # NULL /\ j.p.full_name = r.player_full_name
                       /\ r.rank_type = "dynasty"
        OnDp(j, r) == /\ j.ft.team_id = r.owner_id
                      /\ r.league_id = league_id /\ r.session_id = session_id
        OnSfr2(j, r) == /\ j.dp # NULL /\ PickName(j.dp) = r.player_full_name
                        /\ r.rank_type = "dynasty"
        j1 == LeftJoin(j0, lp_t, "lp", OnLp)
        j2 == LeftJoin(j1, players, "p", OnP)
        j3 == LeftJoin(j2, sfr_t, "sfr", OnSfr)
        j4 == LeftJoin(j3, dp_t, "dp", OnDp)
        j5 == LeftJoin(j4, sfr_t, "sfr2", OnSfr2)
    IN {j \in j5 : j.ft.league_id = league_id /\ j.ft.session_id = session_id}

\* CASE WHEN p.player_position IN ('QB','RB','WR','TE')
\*      THEN sfr.superflex_sf_value ELSE 0 END
PlayerCase(j) ==
    IF j.p # NULL /\ j.p.player_position \in SkillPositions
    THEN (IF j.sfr = NULL THEN NullNum ELSE Num(j.sfr.superflex_sf_value))
    ELSE Num(0)

\* CASE WHEN dp.owner_id IS NOT NULL THEN sfr2.superflex_sf_value ELSE 0 END
PickCase(j) ==
    IF j.dp # NULL
    THEN (IF j.sfr2 = NULL THEN NullNum ELSE Num(j.sfr2.superflex_sf_value))
    ELSE Num(0)

\* the CTE team_values: GROUP BY ft.owner_id, ft.owner_display_name
TeamValues(ft_t, lp_t, dp_t, sfr_t, league_id, session_id) ==
    LET rows == JoinedRows(ft_t, lp_t, dp_t, sfr_t, league_id, session_id)
        keys == {<<j.ft.owner_id, j.ft.owner_display_name>> : j \in rows}
        grp(k) == {j \in rows : <<j.ft.owner_id, j.ft.owner_display_name>> = k}
    IN { [user_id |-> k[1], display_name |-> k[2],
          total_value |-> COALESCE(SumNonNull([j \in grp(k) |-> PlayerCase(j)]), 0),
          starters_value |-> COALESCE(SumNonNull([j \in grp(k) |-> PlayerCase(j)]), 0),
          picks_value |-> COALESCE(SumNonNull([j \in grp(k) |-> PickCase(j)]), 0)]
         : k \in keys }

\* Rank as DENSE_RANK(): 1 + the number of distinct greater values
Rank_Dense(tv, r, col) == 1 + Cardinality({x[col] : x \in {y \in tv : y[col] > r[col]}})

\* RANK() OVER (ORDER BY <col> DESC)
Rank(tv, r, col) == 1 + Cardinality({x \in tv : x[col] > r[col]})

\* the outer SELECT over team_values
SummaryQuery(ft_t, lp_t, dp_t, sfr_t, league_id, session_id) ==
    LET tv == TeamValues(ft_t, lp_t, dp_t, sfr_t, league_id, session_id)
    IN { [user_id |-> r.user_id, display_name |-> r.display_name,
          total_value |-> r.total_value,
          power_rank |-> Rank(tv, r, "total_value"),
          starters_value |-> r.starters_value,
          starters_rank |-> Rank(tv, r, "starters_value"),
          bench_value |-> 0, bench_rank |-> 1,
          picks_value |-> r.picks_value,
          picks_rank |-> Rank(tv, r, "picks_value")] : r \in tv }

\* UpsertRanks as a plain INSERT, without the ON CONFLICT clause
UpsertRanks_InsertOnly(table, rks, league_id, src) ==
    table \cup {[user_id |-> rk.user_id, display_name |-> rk.display_name,
                 league_id |-> league_id,
                 ranks |-> [s \in {src} |->
                              [power_rank |-> rk.power_rank,
                               starters_rank |-> rk.starters_rank,
                               bench_rank |-> rk.bench_rank,
                               picks_rank |-> rk.picks_rank]]] : rk \in rks}

\* UpsertRanks with DO UPDATE setting the rank columns of every source
UpsertRanks_EverySource(table, rks, league_id, src) ==
    LET key(r) == <<r.user_id, r.league_id>>
        cols(rk) == [power_rank |-> rk.power_rank, starters_rank |-> rk.starters_rank,
                     bench_rank |-> rk.bench_rank, picks_rank |-> rk.picks_rank]
        new(rk) == [user_id |-> rk.user_id, display_name |-> rk.display_name,
                    league_id |-> league_id, ranks |-> [s \in {src} |-> cols(rk)]]
        upd(old, rk) == [old EXCEPT !.ranks =
                            [s \in DOMAIN old.ranks \cup {src} |-> cols(rk)]]
        hit(rk) == {r \in table : key(r) = <<rk.user_id, league_id>>}
    IN {r \in table : \A rk \in rks : key(r) # <<rk.user_id, league_id>>}
       \cup UNION { IF hit(rk) = {} THEN {new(rk)}
                    ELSE {upd(o, rk) : o \in hit(rk)} : rk \in rks }

\* INSERT INTO ranks_summary ... ON CONFLICT (user_id, league_id) DO UPDATE,
\* executed for every fetched row with rank_source = src
UpsertRanks(table, rks, league_id, src) ==
    LET key(r) == <<r.user_id, r.league_id>>
        new(rk) == [user_id |-> rk.user_id, display_name |-> rk.display_name,
                    league_id |-> league_id,
                    ranks |-> [s \in {src} |->
                                 [power_rank |-> rk.power_rank,
                                  starters_rank |-> rk.starters_rank,
                                  bench_rank |-> rk.bench_rank,
                                  picks_rank |-> rk.picks_rank]]]
        upd(old, rk) == [old EXCEPT !.ranks =
                            [s \in DOMAIN old.ranks \cup {src} |->
                                IF s = src THEN new(rk).ranks[src]
                                ELSE old.ranks[s]]]
        hit(rk) == {r \in table : key(r) = <<rk.user_id, league_id>>}
    IN {r \in table : \A rk \in rks : key(r) # <<rk.user_id, league_id>>}
       \cup UNION { IF hit(rk) = {} THEN {new(rk)}
                    ELSE {upd(o, rk) : o \in hit(rk)} : rk \in rks }

(***************************************************************************)
(* Table contents the pipeline produces.                                   *)
(***************************************************************************)
\* insert_fleaflicker_teams: one row per team of the standings
TeamRecord(t, league_id, session_id) ==
    [team_id |-> t, league_id |-> league_id, session_id |-> session_id,
     owner_id |-> StandingsOwner(t).id,
     owner_display_name |-> StandingsOwner(t).displayName]

\* insert_fleaflicker_league_rosters: one row per rostered player whose name
\* is found in dynastr.players
LeaguePlayerRows(t, names, league_id, session_id) ==
    {[session_id |-> session_id, owner_user_id |-> RequestUser,
      player_id |-> p.player_id, league_id |-> league_id,
      user_id |-> StandingsOwner(t).id] : p \in {x \in players : x.full_name \in names}}

\* the valuation source: n rows for one (name, rank_type), all of value v
RankRows(name, rank_type, n, v) ==
    {[rid |-> i, player_full_name |-> name, rank_type |-> rank_type,
      superflex_sf_value |-> v] : i \in 1..n}

PickValuationName == ToString(CurrentYear + 1) \o " Mid 2nd"

(***************************************************************************)
(* Platform: FetchTeamPicks.                                               *)
(***************************************************************************)
\* pick k is on the list FetchTeamPicks returns for team t: t owns it now, or
\* it is t's own slot, traded away, and the platform also lists lost picks
Listed(t, k) == owned_by[k] = t \/ (lists_lost /\ k.original = t)

\* the raw fact for pick k on team t's list; 'original' is given for a pick
\* acquired from another team
RawPick(t, k) ==
    [season |-> k.season, slot |-> [round |-> k.round],
     ownedBy |-> [id |-> owned_by[k]],
     original |-> IF k.original = t THEN NULL ELSE [id |-> k.original]]

TeamPicksResponse(t) ==
    LET listed == SelectSeq(PickSeq, LAMBDA k : Listed(t, k))
    IN [i \in 1..Len(listed) |-> RawPick(t, listed[i])]

(***************************************************************************)
(* Ownership Resolver: extract_all_fleaflicker_draft_picks.                *)
(***************************************************************************)
\* OriginalId taking the current owner when the fact has no 'original'
OriginalId_OwnerWhenMissing(team_id, pick) ==
    IF pick.original # NULL THEN pick.original.id
    ELSE IF pick.ownedBy # NULL THEN pick.ownedBy.id ELSE team_id

\* original_id = original.get("id") if original else team_id
OriginalId(team_id, pick) ==
    IF pick.original # NULL THEN pick.original.id ELSE team_id

\* the filter of lines 1304-1306
InBounds(pick) ==
    /\ pick.ownedBy # NULL
    /\ pick.season >= CurrentYear + 1
    /\ pick.slot.round <= RoundCeiling

PickKey(team_id, pick) ==
    <<team_id, pick.season, pick.slot.round, OriginalId(team_id, pick)>>

\* PickData with the tier taken from the slot position the platform reports
PickData_TierFromSlot(team_id, pick, league_id) ==
    [year |-> ToString(pick.season), round |-> ToString(pick.slot.round),
     round_name |-> (IF pick.slot.position = NullNum THEN "Mid "
                     ELSE IF pick.slot.position[1] <= 4 THEN "Early "
                     ELSE IF pick.slot.position[1] <= 8 THEN "Mid " ELSE "Late ")
                    \o _get_round_suffix(pick.slot.round),
     roster_id |-> OriginalId(team_id, pick),
     owner_id |-> pick.ownedBy.id,
     league_id |-> league_id]

\* PickData with the queried team stored as the current owner
PickData_OwnerIsQueriedTeam(team_id, pick, league_id) ==
    [year |-> ToString(pick.season), round |-> ToString(pick.slot.round),
     round_name |-> "Mid " \o _get_round_suffix(pick.slot.round),
     roster_id |-> OriginalId(team_id, pick),
     owner_id |-> team_id,
     league_id |-> league_id]

PickData(team_id, pick, league_id) ==
    [year |-> ToString(pick.season), round |-> ToString(pick.slot.round),
     round_name |-> "Mid " \o _get_round_suffix(pick.slot.round),
     roster_id |-> OriginalId(team_id, pick),
     owner_id |-> pick.ownedBy.id,
     league_id |-> league_id]

RECURSIVE ProcessPicks(_, _, _, _, _)
\* the loop "for pick in picks" over one team's response
ProcessPicks(team_id, picks, seen, out, league_id) ==
    IF picks = <<>> THEN [seen |-> seen, out |-> out]
    ELSE LET pick == Head(picks)
             take == InBounds(pick) /\ PickKey(team_id, pick) \notin seen
         IN ProcessPicks(team_id, Tail(picks),
                IF take THEN seen \cup {PickKey(team_id, pick)} ELSE seen,
                IF take THEN Append(out, PickData(team_id, pick, league_id)) ELSE out,
                league_id)

\* NewSeenPicks with the set kept from one extraction to the next
NewSeenPicks_KeptAcrossRuns(old) == old

\* seen_picks = set() at the start of every extraction
NewSeenPicks(old) == {}

(***************************************************************************)
(* Pick Ledger: dynastr.draft_picks.                                       *)
(***************************************************************************)
\* the columns named in ON CONFLICT (...) of the insert
ConflictKey(r) ==
    <<r.year, r.round, r.roster_id, r.owner_id, r.league_id, r.session_id>>

\* INSERT ... ON CONFLICT (...) DO UPDATE SET round_name, draft_id; a row
\* whose key columns hold no value (a column absent from the record) never
\* conflicts
UpsertPick(table, rec) ==
    {r \in table : ~("year" \in DOMAIN r /\ ConflictKey(r) = ConflictKey(rec))}
    \cup {rec}

RECURSIVE InsertPicksData(_, _, _, _)
\* insert_fleaflicker_draft_picks_data: executemany over picks_for_db
InsertPicksData(table, session_id, league_id, picks) ==
    IF picks = <<>> THEN table
    ELSE LET pk == Head(picks)
             rec == [year |-> pk.year, round |-> pk.round,
                     round_name |-> pk.round_name, roster_id |-> pk.roster_id,
                     owner_id |-> pk.owner_id, league_id |-> league_id,
                     session_id |-> session_id]
         IN InsertPicksData(UpsertPick(table, rec), session_id, league_id, Tail(picks))

\* DeleteSnapshot with WHERE league_id = $1 only
DeleteSnapshot_LeagueOnly(table, league_id, session_id) ==
    {r \in table : r.league_id # league_id}

\* DELETE FROM <table> WHERE league_id = $1 AND session_id = $2
DeleteSnapshot(table, league_id, session_id) ==
    {r \in table : ~(r.league_id = league_id /\ r.session_id = session_id)}

\* the ledger rows of one snapshot, as a reader sees them
Ledger(league_id, session_id) ==
    {r \in draft_picks : r.league_id = league_id /\ r.session_id = session_id}

(***************************************************************************)
(* Specification SpecAgg: the aggregation pass over bounded table contents *)
(***************************************************************************)
Sources == {"ktc", "sf"}

\* insert_fleaflicker_ranks_summary(db, session_id, league_id, rank_source)
RanksSummaryPass(src) ==
    /\ pc = "agg"
    /\ rankings' = SummaryQuery(fleaflicker_teams, league_players, draft_picks,
                                sf_player_ranks, League, Session)
    /\ ranks_summary' = UpsertRanks(ranks_summary, rankings', League, src)
    /\ UNCHANGED <<owned_by, chain, lists_lost, draft_picks, league_players,
                   fleaflicker_teams, sf_player_ranks, pc, team_idx, seen_picks,
                   all_draft_picks, before, run_clean, last_run,
                   reqs, api_call, mfl, team_picks, naming,
                   db_state, mfl_direct>>

InitAgg ==
    /\ owned_by \in [Picks -> Teams]
    /\ chain = [k \in Picks |-> IF owned_by[k] = k.original THEN <<k.original>>
                                ELSE <<k.original, owned_by[k]>>]
    /\ lists_lost = FALSE
    /\ draft_picks = {[year |-> ToString(k.season), round |-> ToString(k.round),
                       round_name |-> "Mid " \o _get_round_suffix(k.round),
                       roster_id |-> k.original, owner_id |-> owned_by[k],
                       league_id |-> League, session_id |-> Session] : k \in Picks}
    /\ \E kept \in SUBSET {"Quinn QB", "Robin RB", "Kim K"} :
          league_players = UNION {LeaguePlayerRows(t, PlatformRoster(t) \cap kept,
                                                   League, Session) : t \in Teams}
    /\ fleaflicker_teams = {TeamRecord(t, League, Session) : t \in Teams}
    /\ \E np \in 0..MaxDup, nq \in 0..MaxDup :
          sf_player_ranks = RankRows(PickValuationName, "dynasty", np, 5)
                            \cup RankRows(PickValuationName, "redraft", 1, 1)
                            \cup RankRows("Quinn QB", "dynasty", nq, 7)
                            \cup RankRows("Robin RB", "dynasty", 1, 3)
                            \cup RankRows("Kim K", "dynasty", 1, 2)
    /\ ranks_summary = {}
    /\ rankings = {}
    /\ pc = "agg"
    /\ team_idx = 1
    /\ seen_picks = {}
    /\ all_draft_picks = <<>>
    /\ before = {}
    /\ run_clean = TRUE
    /\ last_run = NoRun
    /\ reqs = <<>>
    /\ api_call = <<>>
    /\ mfl = <<>>
    /\ team_picks = <<>>
    /\ naming = <<>>
    /\ db_state = <<>>
    /\ mfl_direct = <<>>

NextAgg == \E src \in Sources : RanksSummaryPass(src)

SpecAgg == InitAgg /\ [][NextAgg]_vars

(***************************************************************************)
(* Expected values of the aggregation, computed row by row.                *)
(***************************************************************************)
\* the team rows, roster rows and ledger rows of the manager with user id u
TeamsOf(u) == {t \in fleaflicker_teams : t.owner_id = u
                  /\ t.league_id = League /\ t.session_id = Session}
RosterOf(u) == {lp \in league_players : lp.user_id = u
                  /\ lp.league_id = League /\ lp.session_id = Session}
PicksOf(u) == {dp \in draft_picks : dp.league_id = League /\ dp.session_id = Session
                  /\ \E t \in TeamsOf(u) : t.team_id = dp.owner_id}

ValuationsOf(name) ==
    {v \in sf_player_ranks : v.player_full_name = name /\ v.rank_type = "dynasty"}

\* the single value of a name: 0 without a valuation row
ValueOnce(name) ==
    IF ValuationsOf(name) = {} THEN 0
    ELSE (CHOOSE v \in ValuationsOf(name) : TRUE).superflex_sf_value

PlayerOf(lp) == CHOOSE p \in players : p.player_id = lp.player_id

PlayerValueOnce(lp) ==
    IF PlayerOf(lp).player_position \in SkillPositions
    THEN ValueOnce(PlayerOf(lp).full_name) ELSE 0

ExpectedPlayersValue(u) ==
    COALESCE(SumNonNull([lp \in RosterOf(u) |-> Num(PlayerValueOnce(lp))]), 0)

ExpectedPicksValue(u) ==
    COALESCE(SumNonNull([dp \in PicksOf(u) |-> Num(ValueOnce(PickName(dp)))]), 0)

\* every name the manager's rows look up has at most one valuation row
SingleValued(u) ==
    /\ \A dp \in PicksOf(u) : Cardinality(ValuationsOf(PickName(dp))) <= 1
    /\ \A lp \in RosterOf(u) : Cardinality(ValuationsOf(PlayerOf(lp).full_name)) <= 1

\* C1: a manager who owns k pick rows that share one canonical name of value v
\* gets picks_value = k * v, whatever the number of roster, team and valuation
\* rows in the query.
C1_NoFanOutOnPicks ==
    \A r \in rankings :
        \A name \in {PickName(dp) : dp \in PicksOf(r.user_id)} :
            ( /\ \A dp \in PicksOf(r.user_id) : PickName(dp) = name
              /\ Cardinality(ValuationsOf(name)) = 1
              /\ SingleValued(r.user_id) )
            => r.picks_value = Cardinality(PicksOf(r.user_id)) * ValueOnce(name)

\* C8: the starters value of a manager is the sum over the roster rows of each
\* player's single valuation, whether the manager owns 0, 1 or many picks.
C8_NoFanOutOnPlayers ==
    \A r \in rankings :
        SingleValued(r.user_id)
        => r.starters_value = ExpectedPlayersValue(r.user_id)

\* C9: the total value (ordered by power_rank) is the player-only value plus
\* the pick-only value.
C9_TotalIsPlayersPlusPicks ==
    \A r \in rankings : r.total_value = r.starters_value + r.picks_value

\* C10: with m > 1 valuation rows for one (name, rank_type), a pick or player
\* of that name contributes its value once; stated for managers with at most
\* one roster row and at most one pick row, where no other join multiplies.
C10_DuplicateValuationsCountOnce ==
    \A r \in rankings :
        ( /\ Cardinality(RosterOf(r.user_id)) <= 1
          /\ Cardinality(PicksOf(r.user_id)) <= 1
          /\ ~SingleValued(r.user_id) )
        => /\ r.picks_value = ExpectedPicksValue(r.user_id)
           /\ r.starters_value = ExpectedPlayersValue(r.user_id)

(***************************************************************************)
(* Specification Spec: the /roster request of one Fleaflicker snapshot     *)
(* (League, Session), with the platform trading picks at any time.         *)
(***************************************************************************)
InProgress == {"clean_league", "clean_draft", "teams", "rosters", "extract",
               "fetch_picks", "insert", "ranks"}

RECURSIVE SumLen(_, _)
SumLen(f, i) == IF i = 0 THEN 0 ELSE Len(f[PickSeq[i]]) - 1 + SumLen(f, i - 1)

\* the number of trades executed so far
NumTrades == SumLen(chain, Len(PickSeq))

\* the platform executes a trade: pick k moves to team t
Trade(k, t) ==
    /\ NumTrades < MaxTrades
    /\ owned_by[k] # t
    /\ owned_by' = [owned_by EXCEPT ![k] = t]
    /\ chain' = [chain EXCEPT ![k] = Append(@, t)]
    /\ run_clean' = IF pc \in InProgress THEN FALSE ELSE run_clean
    /\ UNCHANGED <<lists_lost, draft_picks, league_players, fleaflicker_teams,
                   sf_player_ranks, ranks_summary, rankings, pc, team_idx,
                   seen_picks, all_draft_picks, before, last_run,
                   reqs, api_call, mfl, team_picks, naming,
                   db_state, mfl_direct>>

\* POST /roster arrives: roster() calls player_manager_rosters_fleaflicker
StartRoster ==
    /\ pc \in {"idle", "done", "failed"}
    /\ pc' = "clean_league"
    /\ before' = Ledger(League, Session)
    /\ run_clean' = TRUE
    /\ rankings' = {}
    /\ UNCHANGED <<owned_by, chain, lists_lost, draft_picks, league_players,
                   fleaflicker_teams, sf_player_ranks, ranks_summary,
                   team_idx, seen_picks, all_draft_picks, last_run,
                   reqs, api_call, mfl, team_picks, naming,
                   db_state, mfl_direct>>

\* clean_fleaflicker_league_data: one transaction
CleanLeagueData ==
    /\ pc = "clean_league"
    /\ league_players' = DeleteSnapshot(league_players, League, Session)
    /\ fleaflicker_teams' = DeleteSnapshot(fleaflicker_teams, League, Session)
    /\ pc' = "clean_draft"
    /\ UNCHANGED <<owned_by, chain, lists_lost, draft_picks, sf_player_ranks,
                   ranks_summary, rankings, team_idx, seen_picks,
                   all_draft_picks, before, run_clean, last_run,
                   reqs, api_call, mfl, team_picks, naming,
                   db_state, mfl_direct>>

\* clean_fleaflicker_draft_data: one transaction
CleanDraftData ==
    /\ pc = "clean_draft"
    /\ draft_picks' = DeleteSnapshot(draft_picks, League, Session)
    /\ pc' = "teams"
    /\ UNCHANGED <<owned_by, chain, lists_lost, league_players,
                   fleaflicker_teams, sf_player_ranks, ranks_summary, rankings,
                   team_idx, seen_picks, all_draft_picks, before, run_clean,
                   last_run,
                   reqs, api_call, mfl, team_picks, naming,
                   db_state, mfl_direct>>

\* get_fleaflicker_managers, the managers upsert and insert_fleaflicker_teams
InsertTeams ==
    /\ pc = "teams"
    /\ fleaflicker_teams' = DeleteSnapshot(fleaflicker_teams, League, Session)
                            \cup {TeamRecord(t, League, Session) : t \in Teams}
    /\ pc' = "rosters"
    /\ UNCHANGED <<owned_by, chain, lists_lost, draft_picks, league_players,
                   sf_player_ranks, ranks_summary, rankings, team_idx,
                   seen_picks, all_draft_picks, before, run_clean, last_run,
                   reqs, api_call, mfl, team_picks, naming,
                   db_state, mfl_direct>>

\* insert_fleaflicker_league_rosters: the roster fetch of the teams in bad
\* raises and is skipped by get_fleaflicker_league_rosters
InsertLeagueRosters(bad) ==
    /\ pc = "rosters"
    /\ league_players' =
          DeleteSnapshot(league_players, League, Session)
          \cup UNION {LeaguePlayerRows(t, PlatformRoster(t), League, Session)
                        : t \in Teams \ bad}
    /\ run_clean' = (run_clean /\ bad = {})
    /\ pc' = "extract"
    /\ UNCHANGED <<owned_by, chain, lists_lost, draft_picks,
                   fleaflicker_teams, sf_player_ranks, ranks_summary, rankings,
                   team_idx, seen_picks, all_draft_picks, before, last_run,
                   reqs, api_call, mfl, team_picks, naming,
                   db_state, mfl_direct>>

\* extract_all_fleaflicker_draft_picks up to the team loop; when the standings
\* fetch raises (ok = FALSE) the function returns []
ExtractStart(ok) ==
    /\ pc = "extract"
    /\ seen_picks' = NewSeenPicks(seen_picks)
    /\ all_draft_picks' = <<>>
    /\ team_idx' = 1
    /\ pc' = IF ok THEN "fetch_picks" ELSE "insert"
    /\ run_clean' = (run_clean /\ ok)
    /\ UNCHANGED <<owned_by, chain, lists_lost, draft_picks, league_players,
                   fleaflicker_teams, sf_player_ranks, ranks_summary, rankings,
                   before, last_run,
                   reqs, api_call, mfl, team_picks, naming,
                   db_state, mfl_direct>>

\* one iteration of "for team_id in team_ids": fetch_team_picks and the loop
\* over its picks; when the fetch raises (ok = FALSE) the team is skipped
FetchTeamPicks(ok) ==
    /\ pc = "fetch_picks"
    /\ LET team_id == TeamIds[team_idx]
           res == ProcessPicks(team_id, TeamPicksResponse(team_id), seen_picks,
                               all_draft_picks, League)
       IN /\ seen_picks' = IF ok THEN res.seen ELSE seen_picks
          /\ all_draft_picks' = IF ok THEN res.out ELSE all_draft_picks
    /\ run_clean' = (run_clean /\ ok)
    /\ team_idx' = team_idx + 1
    /\ pc' = IF team_idx = Len(TeamIds) THEN "insert" ELSE "fetch_picks"
    /\ UNCHANGED <<owned_by, chain, lists_lost, draft_picks, league_players,
                   fleaflicker_teams, sf_player_ranks, ranks_summary, rankings,
                   before, last_run,
                   reqs, api_call, mfl, team_picks, naming,
                   db_state, mfl_direct>>

\* "if all_draft_picks: insert_fleaflicker_draft_picks_data(...)" (one
\* transaction), then return {"status": "success"}
InsertDraftPicks ==
    /\ pc = "insert"
    /\ draft_picks' = IF all_draft_picks # <<>>
                      THEN InsertPicksData(draft_picks, Session, League, all_draft_picks)
                      ELSE draft_picks
    /\ all_draft_picks' = <<>>
    /\ team_idx' = 1
    /\ pc' = "ranks"
    /\ UNCHANGED <<owned_by, chain, lists_lost, league_players,
                   fleaflicker_teams, sf_player_ranks, ranks_summary, rankings,
                   seen_picks, before, run_clean, last_run,
                   reqs, api_call, mfl, team_picks, naming,
                   db_state, mfl_direct>>

\* a step of player_manager_rosters_fleaflicker raises (an external fetch or a
\* database statement fails; an open transaction rolls back): the function
\* raises "Failed to update Fleaflicker rosters" and the request ends
StepFails ==
    /\ pc \in {"clean_league", "clean_draft", "teams", "rosters", "extract", "insert"}
    /\ pc' = "failed"
    /\ last_run' = NoRun
    /\ all_draft_picks' = <<>>
    /\ team_idx' = 1
    /\ UNCHANGED <<owned_by, chain, lists_lost, draft_picks, league_players,
                   fleaflicker_teams, sf_player_ranks, ranks_summary, rankings,
                   seen_picks, before, run_clean,
                   reqs, api_call, mfl, team_picks, naming,
                   db_state, mfl_direct>>

\* the summary of a complete run (no fetch failed, no trade during the run);
\* nth counts the complete runs in sequence on the same platform data, up to 2
RunSummary(rks, summary) ==
    [platform |-> owned_by, ledger |-> Ledger(League, Session),
     rankings |-> rks, summary |-> summary,
     nth |-> IF last_run # NoRun /\ last_run.platform = owned_by THEN 2 ELSE 1]

\* roster(): insert_fleaflicker_ranks_summary(db, guid, league_id) after the
\* refresh returned; ok = FALSE when it raises (logged, the result is returned)
RosterRanks(ok) ==
    /\ pc = "ranks"
    /\ rankings' = IF ok
                   THEN SummaryQuery(fleaflicker_teams, league_players, draft_picks,
                                     sf_player_ranks, League, Session)
                   ELSE {}
    /\ ranks_summary' = IF ok THEN UpsertRanks(ranks_summary, rankings', League, "ktc")
                        ELSE ranks_summary
    /\ last_run' = IF ok /\ run_clean
                   THEN RunSummary(rankings', ranks_summary')
                   ELSE NoRun
    /\ before' = {}
    /\ pc' = "done"
    /\ UNCHANGED <<owned_by, chain, lists_lost, draft_picks, league_players,
                   fleaflicker_teams, sf_player_ranks, team_idx, seen_picks,
                   all_draft_picks, run_clean,
                   reqs, api_call, mfl, team_picks, naming,
                   db_state, mfl_direct>>

Init ==
    /\ owned_by = [k \in Picks |-> k.original]
    /\ chain = [k \in Picks |-> <<k.original>>]
    /\ lists_lost \in BOOLEAN
    /\ draft_picks = {}
    /\ league_players = {}
    /\ fleaflicker_teams = {}
    /\ sf_player_ranks = RankRows(PickValuationName, "dynasty", 1, 5)
                         \cup RankRows("Quinn QB", "dynasty", 1, 7)
                         \cup RankRows("Robin RB", "dynasty", 1, 3)
    /\ ranks_summary = {}
    /\ rankings = {}
    /\ pc = "idle"
    /\ team_idx = 1
    /\ seen_picks = {}
    /\ all_draft_picks = <<>>
    /\ before = {}
    /\ run_clean = TRUE
    /\ last_run = NoRun
    /\ reqs = <<>>
    /\ api_call = <<>>
    /\ mfl = <<>>
    /\ team_picks = <<>>
    /\ naming = <<>>
    /\ db_state = <<>>
    /\ mfl_direct = <<>>

Next ==
    \/ \E k \in Picks, t \in Teams : Trade(k, t)
    \/ StartRoster
    \/ CleanLeagueData
    \/ CleanDraftData
    \/ InsertTeams
    \/ \E bad \in {{}, {"T3"}} : InsertLeagueRosters(bad)
    \/ \E ok \in BOOLEAN : ExtractStart(ok)
    \/ \E ok \in BOOLEAN : FetchTeamPicks(ok)
    \/ InsertDraftPicks
    \/ StepFails
    \/ \E ok \in BOOLEAN : RosterRanks(ok)

Spec == Init /\ [][Next]_vars

TypeOK ==
    /\ owned_by \in [Picks -> Teams]
    /\ NumTrades <= MaxTrades
    /\ pc \in InProgress \cup {"idle", "done", "failed", "agg"}
    /\ team_idx \in 0..(Len(TeamIds) + 1)

(***************************************************************************)
(* Properties of the resolver, the ledger and the refresh.                 *)
(***************************************************************************)
\* the ledger rows of original pick k in the snapshot
RowsOf(k) ==
    {r \in Ledger(League, Session) :
        /\ r.year = ToString(k.season) /\ r.round = ToString(k.round)
        /\ r.roster_id = k.original}

\* pick k went A -> B -> C through three different teams
TradedInChain(k) ==
    /\ Len(chain[k]) = 3
    /\ Cardinality({chain[k][i] : i \in 1..3}) = 3

\* C2: the list the resolver returns never holds two records with the same
\* (season, round, original owner); stated for runs whose fetches all
\* succeeded on unchanged platform data, where one pick can still be on the
\* lists of two queried teams.
C2_OneRecordPerOriginalPick ==
    run_clean =>
    \A i, j \in 1..Len(all_draft_picks) :
        ( /\ all_draft_picks[i].year = all_draft_picks[j].year
          /\ all_draft_picks[i].round = all_draft_picks[j].round
          /\ all_draft_picks[i].roster_id = all_draft_picks[j].roster_id )
        => i = j

\* C3: when a refresh that read consistent platform facts has stored the
\* picks, every original pick (also one traded A -> B -> C) has exactly one
\* ledger row, with its original owner and with the final owner as current
\* owner; no row names an earlier owner.
C3_TradeChainResolved ==
    (pc = "ranks" /\ run_clean)
    => \A k \in Picks :
          /\ Cardinality(RowsOf(k)) = 1
          /\ \A r \in RowsOf(k) : r.owner_id = owned_by[k]

C3_Witness ==
    /\ pc = "ranks" /\ run_clean /\ lists_lost
    /\ \E k \in Picks : TradedInChain(k) /\ RowsOf(k) # {}

\* C4: the ledger holds at most one row per
\* (league_id, session_id, season, round, original owner).
C4_LedgerUniqueIdentity ==
    \A r1, r2 \in draft_picks :
        ( /\ r1.league_id = r2.league_id /\ r1.session_id = r2.session_id
          /\ r1.year = r2.year /\ r1.round = r2.round
          /\ r1.roster_id = r2.roster_id )
        => r1 = r2

\* C5: while a refresh is running, a reader sees the ledger of the snapshot
\* as it was before the refresh until the new set is in place; never empty or
\* partly replaced in between.
C5_AtomicSnapshotReplace ==
    pc \in (InProgress \ {"ranks"}) => Ledger(League, Session) = before

\* C6: after a refresh that failed, the ledger of the snapshot is what it was
\* before the refresh began.
C6_FailedRefreshKeepsSnapshot ==
    pc = "failed" => Ledger(League, Session) = before

\* C7: a complete run that follows a complete run on identical platform data
\* leaves the same ledger rows, the same per-manager values and ranks and the
\* same rank summary rows as the run before it.
C7_Idempotent ==
    [][ ( /\ pc = "ranks"
          /\ last_run # NoRun /\ last_run' # NoRun
          /\ last_run'.platform = last_run.platform )
        => ( /\ last_run'.ledger = last_run.ledger
             /\ last_run'.rankings = last_run.rankings
             /\ last_run'.summary = last_run.summary ) ]_vars

C7_Witness ==
    /\ pc = "done" /\ last_run # NoRun /\ last_run.nth = 2
    /\ NumTrades > 0
    /\ Cardinality(last_run.ledger) = Len(PickSeq)
    /\ \E r \in last_run.rankings : r.picks_value > 0

(***************************************************************************)
(* Specification SpecConc: two /roster requests of the same snapshot       *)
(* (League, Session) run at the same time, each on its own connection,     *)
(* while the platform trades picks.  The specification follows the ledger: *)
(* a request is the DELETE transaction, the extraction (which here reads   *)
(* the platform at one instant) and the INSERT transaction.                *)
(***************************************************************************)
Requests == {"A", "B"}

RECURSIVE ExtractAll(_, _, _)
\* extract_all_fleaflicker_draft_picks: the loop over team_ids, every fetch
\* succeeding, on the platform facts of the current state
ExtractAll(i, seen, out) ==
    IF i > Len(TeamIds) THEN out
    ELSE LET res == ProcessPicks(TeamIds[i], TeamPicksResponse(TeamIds[i]),
                                 seen, out, League)
         IN ExtractAll(i + 1, res.seen, res.out)

\* the ledger rows one request's extracted list stands for
RecordSet(picks) == InsertPicksData({}, Session, League, picks)

\* clean_fleaflicker_draft_data of request r: one transaction
ConcClean(r) ==
    /\ pc = "conc"
    /\ reqs[r].pc = "clean"
    /\ draft_picks' = DeleteSnapshot(draft_picks, League, Session)
    /\ reqs' = [reqs EXCEPT ![r].pc = "extract"]
    /\ UNCHANGED <<owned_by, chain, lists_lost, league_players,
                   fleaflicker_teams, sf_player_ranks, ranks_summary, rankings,
                   pc, team_idx, seen_picks, all_draft_picks, before, run_clean,
                   last_run, api_call, mfl, team_picks, naming,
                   db_state, mfl_direct>>

\* all_draft_picks = await extract_all_fleaflicker_draft_picks(league_id)
ConcExtract(r) ==
    /\ pc = "conc"
    /\ reqs[r].pc = "extract"
    /\ reqs' = [reqs EXCEPT ![r].pc = "insert",
                            ![r].picks = ExtractAll(1, NewSeenPicks({}), <<>>)]
    /\ UNCHANGED <<owned_by, chain, lists_lost, draft_picks, league_players,
                   fleaflicker_teams, sf_player_ranks, ranks_summary, rankings,
                   pc, team_idx, seen_picks, all_draft_picks, before, run_clean,
                   last_run, api_call, mfl, team_picks, naming,
                   db_state, mfl_direct>>

\* "if all_draft_picks: insert_fleaflicker_draft_picks_data(...)": one
\* transaction, then the request returns
ConcInsert(r) ==
    /\ pc = "conc"
    /\ reqs[r].pc = "insert"
    /\ draft_picks' = IF reqs[r].picks # <<>>
                      THEN InsertPicksData(draft_picks, Session, League, reqs[r].picks)
                      ELSE draft_picks
    /\ reqs' = [reqs EXCEPT ![r].pc = "done"]
    /\ UNCHANGED <<owned_by, chain, lists_lost, league_players,
                   fleaflicker_teams, sf_player_ranks, ranks_summary, rankings,
                   pc, team_idx, seen_picks, all_draft_picks, before, run_clean,
                   last_run, api_call, mfl, team_picks, naming,
                   db_state, mfl_direct>>

InitConc ==
    /\ owned_by = [k \in Picks |-> k.original]
    /\ chain = [k \in Picks |-> <<k.original>>]
    /\ lists_lost \in BOOLEAN
    /\ draft_picks = {}
    /\ league_players = {}
    /\ fleaflicker_teams = {}
    /\ sf_player_ranks = {}
    /\ ranks_summary = {}
    /\ rankings = {}
    /\ pc = "conc"
    /\ team_idx = 1
    /\ seen_picks = {}
    /\ all_draft_picks = <<>>
    /\ before = {}
    /\ run_clean = TRUE
    /\ last_run = NoRun
    /\ reqs = [r \in Requests |-> [pc |-> "clean", picks |-> <<>>]]
    /\ api_call = <<>>
    /\ mfl = <<>>
    /\ team_picks = <<>>
    /\ naming = <<>>
    /\ db_state = <<>>
    /\ mfl_direct = <<>>

NextConc ==
    \/ \E k \in Picks, t \in Teams : Trade(k, t)
    \/ \E r \in Requests : ConcClean(r)
    \/ \E r \in Requests : ConcExtract(r)
    \/ \E r \in Requests : ConcInsert(r)

SpecConc == InitConc /\ [][NextConc]_vars

\* C11: when two concurrent refreshes of one snapshot have both finished, the
\* ledger of the snapshot is exactly the record set of one of them; never a
\* union or a mix of rows of both.
C11_LastWriterWins ==
    (\A r \in Requests : reqs[r].pc = "done")
    => \E r \in Requests : Ledger(League, Session) = RecordSet(reqs[r].picks)

\* C12: a refresh that returned {"status": "success"} stored the picks of
\* every team: when the fetch of one team's picks failed, the refresh does not
\* complete with the picks of the other teams only.  Stated for behaviours
\* without any trade, where every original pick is on its own team's list.
C12_NoSilentPartialData ==
    (pc = "ranks" /\ NumTrades = 0) => \A k \in Picks : RowsOf(k) # {}

(***************************************************************************)
(* Specification SpecRetry: one invocation of _make_api_call               *)
(* (FleaflickerClient and MFLClient have the same loop).                   *)
(***************************************************************************)
DefaultMaxRetries == 5

\* what one attempt (session.get, raise_for_status, response.json) can end in:
\* the decoded body, an aiohttp.ClientError, or an exception that is not one
\* (asyncio.TimeoutError of ClientTimeout(total=timeout), json.JSONDecodeError)
ClientErrors == {"ClientResponseError", "ClientConnectorError"}
OtherErrors == {"TimeoutError", "JSONDecodeError"}
Outcomes == {"ok"} \cup ClientErrors \cup OtherErrors

RECURSIVE Pow2(_)
\* 2 ** retry
Pow2(n) == IF n = 0 THEN 1 ELSE 2 * Pow2(n - 1)

Rest_api == <<owned_by, chain, lists_lost, draft_picks, league_players,
              fleaflicker_teams, sf_player_ranks, ranks_summary, rankings, pc,
              team_idx, seen_picks, all_draft_picks, before, run_clean,
              last_run, reqs, mfl, team_picks, naming,
              db_state, mfl_direct>>

\* ApiAttempt with "except Exception" in place of "except aiohttp.ClientError"
ApiAttempt_RetryAnyError(outcome) ==
    /\ api_call # <<>> /\ api_call.pc = "attempt"
    /\ api_call.retry < api_call.max_retries
    /\ api_call' =
          IF outcome = "ok"
          THEN [api_call EXCEPT !.pc = "returned", !.attempts = @ + 1]
          ELSE IF api_call.retry < api_call.max_retries - 1
          THEN [api_call EXCEPT !.pc = "sleep", !.attempts = @ + 1,
                                !.errors = Append(@, outcome)]
          ELSE [api_call EXCEPT !.pc = "raised", !.attempts = @ + 1,
                                !.errors = Append(@, outcome)]
    /\ UNCHANGED Rest_api

\* one iteration of "for retry in range(max_retries)": the try block and its
\* except clause up to the sleep or the raise
ApiAttempt(outcome) ==
    /\ api_call # <<>> /\ api_call.pc = "attempt"
    /\ api_call.retry < api_call.max_retries
    /\ api_call' =
          IF outcome = "ok"
          THEN [api_call EXCEPT !.pc = "returned", !.attempts = @ + 1]
          ELSE IF outcome \in ClientErrors /\ api_call.retry < api_call.max_retries - 1
          THEN [api_call EXCEPT !.pc = "sleep", !.attempts = @ + 1,
                                !.errors = Append(@, outcome)]
          ELSE [api_call EXCEPT !.pc = "raised", !.attempts = @ + 1,
                                !.errors = Append(@, outcome)]
    /\ UNCHANGED Rest_api

\* sleep_time = 2 ** retry; await asyncio.sleep(sleep_time); next iteration
ApiSleep ==
    /\ api_call # <<>> /\ api_call.pc = "sleep"
    /\ api_call' = [api_call EXCEPT !.pc = "attempt", !.retry = @ + 1,
                                    !.sleeps = Append(@, Pow2(api_call.retry))]
    /\ UNCHANGED Rest_api

\* range(max_retries) is exhausted without a return or a raise: the function
\* body ends and the call evaluates to None
ApiLoopExhausted ==
    /\ api_call # <<>> /\ api_call.pc = "attempt"
    /\ api_call.retry >= api_call.max_retries
    /\ api_call' = [api_call EXCEPT !.pc = "returned_none"]
    /\ UNCHANGED Rest_api

InitRetry ==
    /\ owned_by = [k \in Picks |-> k.original]
    /\ chain = [k \in Picks |-> <<k.original>>]
    /\ lists_lost = FALSE
    /\ draft_picks = {}
    /\ league_players = {}
    /\ fleaflicker_teams = {}
    /\ sf_player_ranks = {}
    /\ ranks_summary = {}
    /\ rankings = {}
    /\ pc = "api"
    /\ team_idx = 1
    /\ seen_picks = {}
    /\ all_draft_picks = <<>>
    /\ before = {}
    /\ run_clean = TRUE
    /\ last_run = NoRun
    /\ reqs = <<>>
    /\ \E m \in 0..DefaultMaxRetries :
          api_call = [max_retries |-> m, retry |-> 0, pc |-> "attempt",
                      attempts |-> 0, sleeps |-> <<>>, errors |-> <<>>]
    /\ mfl = <<>>
    /\ team_picks = <<>>
    /\ naming = <<>>
    /\ db_state = <<>>
    /\ mfl_direct = <<>>

NextRetry ==
    \/ \E outcome \in Outcomes : ApiAttempt(outcome)
    \/ ApiSleep
    \/ ApiLoopExhausted

SpecRetry == InitRetry /\ [][NextRetry]_vars

\* C13: _make_api_call makes at most max_retries attempts, waits 2^(i-1)
\* seconds after the i-th failed attempt (1, 2, 4, 8), returns on the first
\* successful attempt, and raises only after max_retries failed attempts,
\* each earlier failure having been followed by its wait.
C13_BoundedRetryWithBackoff ==
    /\ api_call.attempts <= api_call.max_retries
    /\ \A i \in 1..Len(api_call.sleeps) : api_call.sleeps[i] = Pow2(i - 1)
    /\ api_call.pc = "returned" => api_call.attempts = Len(api_call.errors) + 1
    /\ api_call.pc = "raised" =>
          /\ Len(api_call.errors) = api_call.max_retries
          /\ Len(api_call.sleeps) = api_call.max_retries - 1

(***************************************************************************)
(* Specification SpecMfl: the MFL sync request sync_mfl_league with        *)
(* insert_mfl_draft_picks, on the ledger table dynastr.draft_picks.        *)
(***************************************************************************)
MaxFacts == 2

MflLeague == "M1"

\* the futureDraftPick facts the platform can return; every value is a string
MflFacts ==
    [franchise : {"0001", "0002"}, originalFranchise : {"0001"},
     year : {ToString(CurrentYear), ToString(CurrentYear + 1)},
     round : {ToString(RoundCeiling), ToString(RoundCeiling + 1)}]

\* int(s) for the digit strings of MflFacts
int(s) ==
    CASE s = ToString(CurrentYear) -> CurrentYear
      [] s = ToString(CurrentYear + 1) -> CurrentYear + 1
      [] s = ToString(RoundCeiling) -> RoundCeiling
      [] s = ToString(RoundCeiling + 1) -> RoundCeiling + 1

\* picks_entries: (league_id, session_id, owner_id, original_owner_id, season, round)
PicksEntries(picks, league_id, session_id) ==
    {[league_id |-> league_id, session_id |-> session_id,
      owner_id |-> pick.franchise, original_owner_id |-> pick.originalFranchise,
      season |-> int(pick.year), round |-> int(pick.round)] : pick \in picks}

Rest_mfl == <<owned_by, chain, lists_lost, league_players, fleaflicker_teams,
              sf_player_ranks, ranks_summary, rankings, pc, team_idx,
              seen_picks, all_draft_picks, before, run_clean, last_run, reqs,
              api_call, team_picks, naming,
              db_state, mfl_direct>>

\* POST /sync arrives
MflSyncStart ==
    /\ mfl # <<>> /\ mfl.pc \in {"idle", "returned"}
    /\ mfl' = [pc |-> "teams", entries |-> {}, txn_failed |-> FALSE,
               result |-> NULL]
    /\ UNCHANGED draft_picks
    /\ UNCHANGED Rest_mfl

\* insert_mfl_teams, insert_mfl_league_rosters (both re-raise) and
\* insert_mfl_transactions; ok = FALSE when one of the first two raises
MflTeamsAndRosters(ok) ==
    /\ mfl # <<>> /\ mfl.pc = "teams"
    /\ mfl' = IF ok THEN [mfl EXCEPT !.pc = "fetch_picks"]
              ELSE [mfl EXCEPT !.pc = "returned",
                               !.result = [status |-> "error", status_code |-> 500]]
    /\ UNCHANGED draft_picks
    /\ UNCHANGED Rest_mfl

\* insert_mfl_draft_picks up to the transaction: get_future_draft_picks and
\* the picks_entries loop; when the fetch raises (ok = FALSE) the except
\* clause returns 0 and sync_mfl_league returns its success result
MflFetchPicks(ok, picks) ==
    /\ mfl # <<>> /\ mfl.pc = "fetch_picks"
    /\ mfl' = IF ok
              THEN [mfl EXCEPT !.pc = "replace",
                               !.entries = PicksEntries(picks, MflLeague, Session)]
              ELSE [mfl EXCEPT !.pc = "returned",
                               !.result = [status |-> "success", draft_picks |-> 0]]
    /\ UNCHANGED draft_picks
    /\ UNCHANGED Rest_mfl

\* the transaction of insert_mfl_draft_picks (DELETE, then INSERT) and the
\* return of sync_mfl_league; when a statement fails (ok = FALSE) the
\* transaction rolls back, the except clause returns 0
MflReplacePicks(ok) ==
    /\ mfl # <<>> /\ mfl.pc = "replace"
    /\ draft_picks' = IF ok
                      THEN DeleteSnapshot(draft_picks, MflLeague, Session)
                           \cup mfl.entries
                      ELSE draft_picks
    /\ mfl' = [mfl EXCEPT !.pc = "returned", !.txn_failed = ~ok,
                 !.result = [status |-> "success",
                             draft_picks |-> IF ok THEN Cardinality(mfl.entries)
                                             ELSE 0]]
    /\ UNCHANGED Rest_mfl

InitMfl ==
    /\ owned_by = [k \in Picks |-> k.original]
    /\ chain = [k \in Picks |-> <<k.original>>]
    /\ lists_lost = FALSE
    /\ draft_picks = {}
    /\ league_players = {}
    /\ fleaflicker_teams = {}
    /\ sf_player_ranks = {}
    /\ ranks_summary = {}
    /\ rankings = {}
    /\ pc = "mfl"
    /\ team_idx = 1
    /\ seen_picks = {}
    /\ all_draft_picks = <<>>
    /\ before = {}
    /\ run_clean = TRUE
    /\ last_run = NoRun
    /\ reqs = <<>>
    /\ api_call = <<>>
    /\ mfl = [pc |-> "idle", entries |-> {}, txn_failed |-> FALSE, result |-> NULL]
    /\ team_picks = <<>>
    /\ naming = <<>>
    /\ db_state = <<>>
    /\ mfl_direct = <<>>

NextMfl ==
    \/ MflSyncStart
    \/ \E ok \in BOOLEAN : MflTeamsAndRosters(ok)
    \/ \E ok \in BOOLEAN :
         \E picks \in {f \in SUBSET MflFacts : Cardinality(f) <= MaxFacts} :
            MflFetchPicks(ok, picks)
    \/ \E ok \in BOOLEAN : MflReplacePicks(ok)

SpecMfl == InitMfl /\ [][NextMfl]_vars

\* C14: when the delete-then-insert transaction of the draft picks failed, the
\* sync request does not return a success result.
C14_LedgerFailureSurfaced ==
    (mfl.pc = "returned" /\ mfl.txn_failed) => mfl.result.status # "success"

\* C20: a pick fact whose round is above the ceiling (4) or whose season is
\* not a future season is never stored in the ledger; stated for the rows the
\* MFL ingestion path stores.
C20_OutOfBoundsNeverStored ==
    \A r \in Ledger(MflLeague, Session) :
        r.round <= RoundCeiling /\ r.season >= CurrentYear + 1

(***************************************************************************)
(* Specification SpecResolve: the resolver and the ledger insert on an     *)
(* arbitrary FetchTeamPicks response of one queried team.                  *)
(***************************************************************************)
QueriedTeam == "T1"

\* the raw pick facts a response can hold; NULL stands for an absent key;
\* slot.position is the pick's place within the round, a nullable number
RawFacts ==
    [season : {CurrentYear, CurrentYear + 1},
     slot : [round : {RoundCeiling, RoundCeiling + 1}, position : {NullNum, Num(12)}],
     ownedBy : {NULL, [id |-> "T1"], [id |-> "T2"]},
     original : {NULL, [id |-> "T2"]}]

RECURSIVE SeqsUpTo(_, _)
\* the sequences over S of length at most n
SeqsUpTo(S, n) ==
    IF n = 0 THEN {<<>>}
    ELSE SeqsUpTo(S, n - 1)
         \cup {Append(q, x) : q \in {y \in SeqsUpTo(S, n - 1) : Len(y) = n - 1}, x \in S}

Rest_resolve == <<owned_by, chain, lists_lost, league_players,
                  fleaflicker_teams, sf_player_ranks, ranks_summary, rankings,
                  team_idx, before, run_clean, last_run, reqs, api_call, mfl,
                  team_picks, naming,
                  db_state, mfl_direct>>

\* the loop "for pick in picks" on the response of the queried team
ResolveTeamPicks ==
    /\ pc = "resolve"
    /\ LET res == ProcessPicks(QueriedTeam, team_picks, NewSeenPicks(seen_picks),
                               <<>>, League)
       IN /\ seen_picks' = res.seen
          /\ all_draft_picks' = res.out
    /\ pc' = "store"
    /\ UNCHANGED draft_picks
    /\ UNCHANGED Rest_resolve

\* "if all_draft_picks: insert_fleaflicker_draft_picks_data(...)"
StoreResolved ==
    /\ pc = "store"
    /\ draft_picks' = IF all_draft_picks # <<>>
                      THEN InsertPicksData(draft_picks, Session, League, all_draft_picks)
                      ELSE draft_picks
    /\ pc' = "stored"
    /\ UNCHANGED <<seen_picks, all_draft_picks>>
    /\ UNCHANGED Rest_resolve

InitResolve ==
    /\ owned_by = [k \in Picks |-> k.original]
    /\ chain = [k \in Picks |-> <<k.original>>]
    /\ lists_lost = FALSE
    /\ draft_picks = {}
    /\ league_players = {}
    /\ fleaflicker_teams = {}
    /\ sf_player_ranks = {}
    /\ ranks_summary = {}
    /\ rankings = {}
    /\ pc = "resolve"
    /\ team_idx = 1
    /\ seen_picks = {}
    /\ all_draft_picks = <<>>
    /\ before = {}
    /\ run_clean = TRUE
    /\ last_run = NoRun
    /\ reqs = <<>>
    /\ api_call = <<>>
    /\ mfl = <<>>
    /\ team_picks \in SeqsUpTo(RawFacts, MaxFacts)
    /\ naming = <<>>
    /\ db_state = <<>>
    /\ mfl_direct = <<>>

NextResolve == ResolveTeamPicks \/ StoreResolved

SpecResolve == InitResolve /\ [][NextResolve]_vars

\* C15: a pick fact with season and round in bounds whose current owner is
\* missing is still stored: the ledger has a row for it whose current owner is
\* its original owner.
C15_UnresolvedOwnerKept ==
    pc = "stored" =>
    \A i \in 1..Len(team_picks) :
        LET pick == team_picks[i]
        IN ( /\ pick.ownedBy = NULL
             /\ pick.season >= CurrentYear + 1
             /\ pick.slot.round <= RoundCeiling )
           => \E r \in Ledger(League, Session) :
                 /\ r.year = ToString(pick.season)
                 /\ r.round = ToString(pick.slot.round)
                 /\ r.roster_id = OriginalId(QueriedTeam, pick)
                 /\ r.owner_id = r.roster_id

(***************************************************************************)
(* Ranks of the aggregation (checked under SpecAgg).                       *)
(***************************************************************************)
\* the metrics of the outer SELECT: <<value column, rank column>>
Metrics == {<<"total_value", "power_rank">>, <<"starters_value", "starters_rank">>,
            <<"bench_value", "bench_rank">>, <<"picks_value", "picks_rank">>}

\* C16: for each metric the managers are ranked in descending order of value,
\* equal values share one rank, the greatest value has rank 1 and the next
\* distinct lower value has rank = rank of the tie above + size of that tie.
C16_RankSemantics ==
    \A m \in Metrics : \A r1 \in rankings :
        LET higher == {x \in rankings : x[m[1]] > r1[m[1]]}
            above == {x \in higher : \A y \in higher : x[m[1]] <= y[m[1]]}
        IN /\ \A r2 \in rankings :
                 /\ r1[m[1]] > r2[m[1]] => r1[m[2]] < r2[m[2]]
                 /\ r1[m[1]] = r2[m[1]] => r1[m[2]] = r2[m[2]]
           /\ higher = {} => r1[m[2]] = 1
           /\ \A g \in above : r1[m[2]] = g[m[2]] + Cardinality(above)

C16_Witness ==
    \E r1, r2, r3 \in rankings :
        /\ r1 # r2
        /\ r1.picks_value = r2.picks_value /\ r2.picks_value > r3.picks_value
        /\ r1.picks_rank = 1 /\ r2.picks_rank = 1 /\ r3.picks_rank = 3

\* the rows whose looked-up name has no valuation row
UnvaluedPicks == {dp \in draft_picks : ValuationsOf(PickName(dp)) = {}}
UnvaluedPlayers ==
    {lp \in league_players : ValuationsOf(PlayerOf(lp).full_name) = {}}

\* C19: a pick or player whose name has no valuation row contributes exactly
\* 0: every manager of the league has a result row, a manager none of whose
\* rows is matched gets 0, and the sums are those of the query without the
\* unmatched rows.
C19_ZeroFillOnMiss ==
    rankings # {} =>
    /\ {r.user_id : r \in rankings} = {t.owner_id : t \in fleaflicker_teams}
    /\ \A r \in rankings :
          /\ PicksOf(r.user_id) \subseteq UnvaluedPicks => r.picks_value = 0
          /\ RosterOf(r.user_id) \subseteq UnvaluedPlayers => r.starters_value = 0
          /\ \E q \in SummaryQuery(fleaflicker_teams, league_players,
                                   draft_picks \ UnvaluedPicks, sf_player_ranks,
                                   League, Session) :
                q.user_id = r.user_id /\ q.picks_value = r.picks_value
          /\ \E q \in SummaryQuery(fleaflicker_teams,
                                   league_players \ UnvaluedPlayers, draft_picks,
                                   sf_player_ranks, League, Session) :
                q.user_id = r.user_id /\ q.starters_value = r.starters_value

C19_Witness ==
    \E r \in rankings :
        /\ PicksOf(r.user_id) # {} /\ PicksOf(r.user_id) \subseteq UnvaluedPicks
        /\ r.picks_value = 0
        /\ RosterOf(r.user_id) \cap UnvaluedPlayers # {}
        /\ r.starters_value > 0

(***************************************************************************)
(* Specification SpecFrame: rank summary passes for the sources of Sources *)
(* on one snapshot, with refreshes of the snapshot completing in between.  *)
(***************************************************************************)
\* the ledger rows a complete refresh stores for the ownership ob
LedgerOfOwnership(ob) ==
    {[year |-> ToString(k.season), round |-> ToString(k.round),
      round_name |-> "Mid " \o _get_round_suffix(k.round),
      roster_id |-> k.original, owner_id |-> ob[k],
      league_id |-> League, session_id |-> Session] : k \in Picks}

\* a /roster refresh of the snapshot ran to completion after the platform
\* moved picks: the ledger now holds the rows of the ownership ob
SnapshotRefreshed(ob) ==
    /\ pc = "agg"
    /\ ob # owned_by
    /\ owned_by' = ob
    /\ chain' = [k \in Picks |-> IF ob[k] = k.original THEN <<k.original>>
                                 ELSE <<k.original, ob[k]>>]
    /\ draft_picks' = DeleteSnapshot(draft_picks, League, Session)
                      \cup LedgerOfOwnership(ob)
    /\ UNCHANGED <<lists_lost, league_players, fleaflicker_teams,
                   sf_player_ranks, ranks_summary, rankings, pc, team_idx,
                   seen_picks, all_draft_picks, before, run_clean, last_run,
                   reqs, api_call, mfl, team_picks, naming,
                   db_state, mfl_direct>>

InitFrame ==
    /\ owned_by = [k \in Picks |-> k.original]
    /\ chain = [k \in Picks |-> <<k.original>>]
    /\ lists_lost = FALSE
    /\ draft_picks = LedgerOfOwnership(owned_by)
    /\ league_players = UNION {LeaguePlayerRows(t, PlatformRoster(t), League, Session)
                                 : t \in Teams}
    /\ fleaflicker_teams = {TeamRecord(t, League, Session) : t \in Teams}
    /\ sf_player_ranks = RankRows(PickValuationName, "dynasty", 1, 5)
                         \cup RankRows("Quinn QB", "dynasty", 1, 7)
                         \cup RankRows("Robin RB", "dynasty", 1, 3)
    /\ ranks_summary = {}
    /\ rankings = {}
    /\ pc = "agg"
    /\ team_idx = 1
    /\ seen_picks = {}
    /\ all_draft_picks = <<>>
    /\ before = {}
    /\ run_clean = TRUE
    /\ last_run = NoRun
    /\ reqs = <<>>
    /\ api_call = <<>>
    /\ mfl = <<>>
    /\ team_picks = <<>>
    /\ naming = <<>>
    /\ db_state = <<>>
    /\ mfl_direct = <<>>

NextFrame ==
    \/ \E src \in Sources : RanksSummaryPass(src)
    \/ \E ob \in [Picks -> Teams] : SnapshotRefreshed(ob)

SpecFrame == InitFrame /\ [][NextFrame]_vars

\* C17: a rank summary pass for source A leaves every existing
\* (manager, league) row in place as one row, and the rank columns written
\* earlier for any other source B keep their values.
C17_RankWriteFrame ==
    [][ \A src \in Sources :
          RanksSummaryPass(src) =>
          \A o \in ranks_summary :
             LET same == {n \in ranks_summary' :
                             n.user_id = o.user_id /\ n.league_id = o.league_id}
             IN /\ Cardinality(same) = 1
                /\ \A n \in same :
                      /\ n.display_name = o.display_name
                      /\ \A s \in DOMAIN o.ranks \ {src} :
                            s \in DOMAIN n.ranks /\ n.ranks[s] = o.ranks[s] ]_vars

C17_Witness ==
    \E r \in ranks_summary :
        /\ DOMAIN r.ranks = Sources
        /\ r.ranks["ktc"].picks_rank # r.ranks["sf"].picks_rank

(***************************************************************************)
(* Specification SpecName: the canonical namer on pairs of arguments.      *)
(***************************************************************************)
DefaultLeagueSize == 12

\* _get_positional_round_name without the positional qualifier of the slot
_get_positional_round_name_AlwaysMid(round_num, slot, league_size) ==
    "Mid " \o _get_round_suffix(round_num)

_get_positional_round_name(round_num, slot, league_size) ==
    LET ordinal == IF round_num \in {11, 12, 13} THEN ToString(round_num) \o "th"
                   ELSE IF round_num % 10 = 1 THEN ToString(round_num) \o "st"
                   ELSE IF round_num % 10 = 2 THEN ToString(round_num) \o "nd"
                   ELSE IF round_num % 10 = 3 THEN ToString(round_num) \o "rd"
                   ELSE ToString(round_num) \o "th"
        third == league_size \div 3
    IN IF slot <= third THEN "Early " \o ordinal
       ELSE IF slot <= 2 * third THEN "Mid " \o ordinal
       ELSE "Late " \o ordinal

\* the canonical name of a pick: year || ' ' || round_name
CanonicalName(a) ==
    PickName([year |-> ToString(a.season),
              round_name |-> _get_positional_round_name(a.round, a.slot,
                                                        a.league_size)])

\* the tier of a slot: 1-4 Early, 5-8 Mid, 9-12 Late in a 12-team league
TierOf(slot, league_size) ==
    IF slot <= league_size \div 3 THEN "Early"
    ELSE IF slot <= 2 * (league_size \div 3) THEN "Mid"
    ELSE "Late"

\* the arguments the namer is applied to: the slots at the tier boundaries
NameArgs ==
    [season : {CurrentYear + 1, CurrentYear + 2}, round : 1..RoundCeiling,
     slot : {1, 4, 5, 8, 9, 12}, league_size : {DefaultLeagueSize}]

\* the namer is applied to both arguments
ComputeNames ==
    /\ pc = "name"
    /\ naming.names = <<>>
    /\ naming' = [naming EXCEPT !.names = <<CanonicalName(naming.args[1]),
                                            CanonicalName(naming.args[2])>>]
    /\ UNCHANGED <<owned_by, chain, lists_lost, draft_picks, league_players,
                   fleaflicker_teams, sf_player_ranks, ranks_summary, rankings,
                   pc, team_idx, seen_picks, all_draft_picks, before, run_clean,
                   last_run, reqs, api_call, mfl, team_picks,
                   db_state, mfl_direct>>

InitName ==
    /\ owned_by = [k \in Picks |-> k.original]
    /\ chain = [k \in Picks |-> <<k.original>>]
    /\ lists_lost = FALSE
    /\ draft_picks = {}
    /\ league_players = {}
    /\ fleaflicker_teams = {}
    /\ sf_player_ranks = {}
    /\ ranks_summary = {}
    /\ rankings = {}
    /\ pc = "name"
    /\ team_idx = 1
    /\ seen_picks = {}
    /\ all_draft_picks = <<>>
    /\ before = {}
    /\ run_clean = TRUE
    /\ last_run = NoRun
    /\ reqs = <<>>
    /\ api_call = <<>>
    /\ mfl = <<>>
    /\ team_picks = <<>>
    /\ \E a, b \in NameArgs : naming = [args |-> <<a, b>>, names |-> <<>>]
    /\ db_state = <<>>
    /\ mfl_direct = <<>>

NextName == ComputeNames

SpecName == InitName /\ [][NextName]_vars

\* C18: the canonical name is a function of (season, round, tier): equal
\* (season, round, tier) give equal names, different rounds give different
\* names, different tiers give different names; the name the ingestion stores
\* for a pick is the Mid name of its season and round.
C18_CanonicalNaming ==
    naming.names # <<>> =>
    LET a == naming.args[1]
        b == naming.args[2]
        tier(x) == TierOf(x.slot, x.league_size)
        stored(x) == PickData(QueriedTeam,
                              [season |-> x.season, slot |-> [round |-> x.round],
                               ownedBy |-> [id |-> QueriedTeam], original |-> NULL],
                              League)
    IN /\ (a.season = b.season /\ a.round = b.round /\ tier(a) = tier(b))
             => naming.names[1] = naming.names[2]
       /\ a.round # b.round => naming.names[1] # naming.names[2]
       /\ tier(a) # tier(b) => naming.names[1] # naming.names[2]
       /\ tier(a) = "Mid" => PickName(stored(a)) = naming.names[1]

C18_Witness ==
    /\ naming.names = <<ToString(CurrentYear + 1) \o " Early 1st",
                        ToString(CurrentYear + 1) \o " Late 1st">>
    /\ naming.args[1].round = naming.args[2].round
    /\ naming.args[1].slot = 4 /\ naming.args[2].slot = 9

(***************************************************************************)
(* Specification SpecOrdinal: the ordinal of a round number, by            *)
(* _get_round_suffix and by _get_positional_round_name.                    *)
(***************************************************************************)
MaxRound == 23

OrdinalArgs == [round : 1..MaxRound, slot : {1, 5, 9}]

\* both functions are applied to the round number
ComputeOrdinal ==
    /\ pc = "ordinal"
    /\ naming.names = <<>>
    /\ naming' = [naming EXCEPT !.names =
                     <<_get_round_suffix(naming.args.round),
                       _get_positional_round_name(naming.args.round,
                                                  naming.args.slot,
                                                  DefaultLeagueSize)>>]
    /\ UNCHANGED <<owned_by, chain, lists_lost, draft_picks, league_players,
                   fleaflicker_teams, sf_player_ranks, ranks_summary, rankings,
                   pc, team_idx, seen_picks, all_draft_picks, before, run_clean,
                   last_run, reqs, api_call, mfl, team_picks, db_state,
                   mfl_direct>>

InitOrdinal ==
    /\ owned_by = [k \in Picks |-> k.original]
    /\ chain = [k \in Picks |-> <<k.original>>]
    /\ lists_lost = FALSE
    /\ draft_picks = {}
    /\ league_players = {}
    /\ fleaflicker_teams = {}
    /\ sf_player_ranks = {}
    /\ ranks_summary = {}
    /\ rankings = {}
    /\ pc = "ordinal"
    /\ team_idx = 1
    /\ seen_picks = {}
    /\ all_draft_picks = <<>>
    /\ before = {}
    /\ run_clean = TRUE
    /\ last_run = NoRun
    /\ reqs = <<>>
    /\ api_call = <<>>
    /\ mfl = <<>>
    /\ team_picks = <<>>
    /\ \E a \in OrdinalArgs : naming = [args |-> a, names |-> <<>>]
    /\ db_state = <<>>
    /\ mfl_direct = <<>>

NextOrdinal == ComputeOrdinal

SpecOrdinal == InitOrdinal /\ [][NextOrdinal]_vars

\* the English ending of n: th for 11, 12, 13, else by the last digit
Ending(n) ==
    CASE n \in {11, 12, 13} -> "th"
      [] n \notin {11, 12, 13} /\ n % 10 = 1 -> "st"
      [] n \notin {11, 12, 13} /\ n % 10 = 2 -> "nd"
      [] n \notin {11, 12, 13} /\ n % 10 = 3 -> "rd"
      [] OTHER -> "th"

\* C21: for every round number n >= 1, _get_round_suffix(n) is n followed by
\* th for 11, 12, 13, else by st, nd, rd for last digit 1, 2, 3 and th for any
\* other last digit (1st, 2nd, 3rd, 4th, 11th, 12th, 13th, 21st), and
\* _get_positional_round_name ends in the same ordinal.
C21_OrdinalSuffix ==
    naming.names # <<>> =>
    LET n == naming.args.round
        examples == [i \in {1, 2, 3, 4, 11, 12, 13, 21} |->
                        CASE i = 1 -> "1st" [] i = 2 -> "2nd" [] i = 3 -> "3rd"
                          [] i = 4 -> "4th" [] i = 11 -> "11th" [] i = 12 -> "12th"
                          [] i = 13 -> "13th" [] i = 21 -> "21st"]
    IN /\ naming.names[1] = ToString(n) \o Ending(n)
       /\ n \in DOMAIN examples => naming.names[1] = examples[n]
       /\ naming.names[2] = TierOf(naming.args.slot, DefaultLeagueSize) \o " "
                            \o naming.names[1]

C21_Witness ==
    /\ naming.names = <<"12th", "Late 12th">>
    /\ naming.args.round = 12

\* rec is a record of the pick that fact 'pick' of the queried team's list
\* names: same season, round and original owner (the key of the duplicate
\* filter, under which a second fact of the same pick is dropped)
SamePick(pick, rec) ==
    /\ InBounds(pick)
    /\ rec.year = ToString(pick.season)
    /\ rec.round = ToString(pick.slot.round)
    /\ rec.roster_id = (IF pick.original # NULL THEN pick.original.id
                        ELSE QueriedTeam)

\* rec is the record built from fact 'pick'
RecordOf(pick, rec) ==
    SamePick(pick, rec) /\ rec.owner_id = pick.ownedBy.id

C27_OriginalDefaultsToQueriedTeam ==
    pc \in {"store", "stored"} =>
    /\ \A j \in 1..Len(all_draft_picks) :
          \E i \in 1..Len(team_picks) :
             /\ RecordOf(team_picks[i], all_draft_picks[j])
             /\ team_picks[i].original = NULL =>
                   ( all_draft_picks[j].owner_id # all_draft_picks[j].roster_id
                     <=> team_picks[i].ownedBy.id # QueriedTeam )
    /\ \A i \in 1..Len(team_picks) :
          InBounds(team_picks[i]) =>
          \E j \in 1..Len(all_draft_picks) :
             /\ SamePick(team_picks[i], all_draft_picks[j])
             /\ team_picks[i].original = NULL =>
                   all_draft_picks[j].roster_id = QueriedTeam

C27_Witness ==
    /\ pc = "stored"
    /\ \E i \in 1..Len(team_picks) :
          /\ InBounds(team_picks[i]) /\ team_picks[i].original = NULL
          /\ team_picks[i].ownedBy.id # QueriedTeam
    /\ \E r \in Ledger(League, Session) :
          r.roster_id = QueriedTeam /\ r.owner_id # QueriedTeam

\* C23: after any sequence of rank summary writes (any sources, any order,
\* repeated) the rank summary table holds at most one row per
\* (manager id, league id).
C23_OneRowPerManagerLeague ==
    \A r1, r2 \in ranks_summary :
        (r1.user_id = r2.user_id /\ r1.league_id = r2.league_id) => r1 = r2

\* every manager has been written for both sources, the later writes on a
\* ledger that a refresh changed in between
C23_Witness ==
    /\ owned_by # [k \in Picks |-> k.original]
    /\ {r.user_id : r \in ranks_summary} = {StandingsOwner(t).id : t \in Teams}
    /\ \A r \in ranks_summary : DOMAIN r.ranks = Sources
    /\ Cardinality(ranks_summary) = Cardinality(Teams)

\* C29: _make_api_call retries only on aiohttp.ClientError: an exception of
\* another kind raised by an attempt propagates at once with no further
\* attempt and no wait, every earlier failure having been a ClientError; and
\* for max_retries >= 1 the call never ends by returning no value.
C29_RetryOnlyOnClientError ==
    /\ \A i \in 1..Len(api_call.errors) :
          api_call.errors[i] \in OtherErrors =>
             /\ i = Len(api_call.errors)
             /\ api_call.pc = "raised"
             /\ api_call.attempts = i
             /\ Len(api_call.sleeps) = i - 1
    /\ \A i \in 1..Len(api_call.sleeps) : api_call.errors[i] \in ClientErrors
    /\ api_call.max_retries >= 1 => api_call.pc # "returned_none"

\* an attempt failed with a ClientError and was retried, and the retry's
\* TimeoutError went to the caller with retries to spare
C29_Witness ==
    /\ api_call.pc = "raised"
    /\ api_call.errors = <<"ClientResponseError", "TimeoutError">>
    /\ api_call.max_retries = DefaultMaxRetries
    /\ api_call.sleeps = <<1>>

\* C24: within one invocation the stages run strictly one after another,
\* Resolver, then Ledger replace, then Aggregator, then Rank Writer: the
\* ledger of the snapshot changes only in the stage that follows the
\* resolver's return (pc = "insert"), and the aggregation with its rank
\* write runs only in the stage that follows the ledger insert
\* (pc = "ranks").
C24_PipelineOrder ==
    [][ /\ draft_picks' # draft_picks => pc = "insert"
        /\ (rankings' # rankings /\ rankings' # {}) => pc = "ranks"
        /\ ranks_summary' # ranks_summary => pc = "ranks" ]_vars

(***************************************************************************)
(* Specification SpecScope: refreshes of different snapshots on one ledger *)
(* table: two Fleaflicker /roster requests for two sessions of League and  *)
(* an MFL sync of MflLeague run at the same time, each statement in its    *)
(* own transaction on its own connection, while the platform trades picks. *)
(* The table starts with rows of these snapshots and of another league.    *)
(***************************************************************************)
\* the trades the platform executes while the refreshes run
ScopeTrades == 1

OtherSession == "S2"
OtherLeague == "L2"

ScopeRequests == {"A", "B"}

\* the (league_id, guid) of the request bodies
ScopeSnapshot(r) ==
    IF r = "A" THEN [league_id |-> League, session_id |-> Session]
    ELSE [league_id |-> League, session_id |-> OtherSession]

\* a row an earlier refresh of the snapshot stored
StalePick ==
    [year |-> ToString(CurrentYear + 1), round |-> "1", round_name |-> "Mid 1st",
     roster_id |-> "T3", owner_id |-> "T3", league_id |-> League]

StaleMflFact ==
    [franchise |-> "0002", originalFranchise |-> "0001",
     year |-> ToString(CurrentYear + 1), round |-> ToString(RoundCeiling)]

\* clean_fleaflicker_draft_data(db, session_id, league_id) of request r
ScopeClean(r) ==
    /\ pc = "scope"
    /\ reqs[r].pc = "clean"
    /\ draft_picks' = DeleteSnapshot(draft_picks, reqs[r].league_id,
                                     reqs[r].session_id)
    /\ reqs' = [reqs EXCEPT ![r].pc = "extract"]
    /\ UNCHANGED <<owned_by, chain, lists_lost, league_players,
                   fleaflicker_teams, sf_player_ranks, ranks_summary, rankings,
                   pc, team_idx, seen_picks, all_draft_picks, before, run_clean,
                   last_run, api_call, mfl, team_picks, naming,
                   db_state, mfl_direct>>

\* all_draft_picks = await extract_all_fleaflicker_draft_picks(league_id)
ScopeExtract(r) ==
    /\ pc = "scope"
    /\ reqs[r].pc = "extract"
    /\ reqs' = [reqs EXCEPT ![r].pc = "insert",
                            ![r].picks = ExtractAll(1, NewSeenPicks({}), <<>>)]
    /\ UNCHANGED <<owned_by, chain, lists_lost, draft_picks, league_players,
                   fleaflicker_teams, sf_player_ranks, ranks_summary, rankings,
                   pc, team_idx, seen_picks, all_draft_picks, before, run_clean,
                   last_run, api_call, mfl, team_picks, naming,
                   db_state, mfl_direct>>

\* insert_fleaflicker_draft_picks_data(db, session_id, league_id, picks)
ScopeInsert(r) ==
    /\ pc = "scope"
    /\ reqs[r].pc = "insert"
    /\ draft_picks' = IF reqs[r].picks # <<>>
                      THEN InsertPicksData(draft_picks, reqs[r].session_id,
                                           reqs[r].league_id, reqs[r].picks)
                      ELSE draft_picks
    /\ reqs' = [reqs EXCEPT ![r].pc = "done"]
    /\ UNCHANGED <<owned_by, chain, lists_lost, league_players,
                   fleaflicker_teams, sf_player_ranks, ranks_summary, rankings,
                   pc, team_idx, seen_picks, all_draft_picks, before, run_clean,
                   last_run, api_call, mfl, team_picks, naming,
                   db_state, mfl_direct>>

InitScope ==
    /\ owned_by = [k \in Picks |-> k.original]
    /\ chain = [k \in Picks |-> <<k.original>>]
    /\ lists_lost = FALSE
    /\ draft_picks = InsertPicksData({}, Session, League, <<StalePick>>)
                     \cup InsertPicksData({}, OtherSession, League, <<StalePick>>)
                     \cup InsertPicksData({}, Session, OtherLeague, <<StalePick>>)
                     \cup PicksEntries({StaleMflFact}, MflLeague, Session)
    /\ league_players = {}
    /\ fleaflicker_teams = {}
    /\ sf_player_ranks = {}
    /\ ranks_summary = {}
    /\ rankings = {}
    /\ pc = "scope"
    /\ team_idx = 1
    /\ seen_picks = {}
    /\ all_draft_picks = <<>>
    /\ before = {}
    /\ run_clean = TRUE
    /\ last_run = NoRun
    /\ reqs = [r \in ScopeRequests |->
                 [pc |-> "clean", picks |-> <<>>,
                  league_id |-> ScopeSnapshot(r).league_id,
                  session_id |-> ScopeSnapshot(r).session_id]]
    /\ api_call = <<>>
    /\ mfl = [pc |-> "idle", entries |-> {}, txn_failed |-> FALSE, result |-> NULL]
    /\ team_picks = <<>>
    /\ naming = <<>>
    /\ db_state = <<>>
    /\ mfl_direct = <<>>

NextScope ==
    \/ \E k \in Picks, t \in Teams : NumTrades < ScopeTrades /\ Trade(k, t)
    \/ \E r \in ScopeRequests : ScopeClean(r)
    \/ \E r \in ScopeRequests : ScopeExtract(r)
    \/ \E r \in ScopeRequests : ScopeInsert(r)
    \/ MflSyncStart
    \/ \E ok \in BOOLEAN : MflTeamsAndRosters(ok)
    \/ \E ok \in BOOLEAN :
         \E picks \in {f \in SUBSET MflFacts : Cardinality(f) <= 1} :
            MflFetchPicks(ok, picks)
    \/ \E ok \in BOOLEAN : MflReplacePicks(ok)

SpecScope == InitScope /\ [][NextScope]_vars

\* the rows of table that are not of snapshot (league_id, session_id)
RowsOutside(table, league_id, session_id) ==
    {r \in table : r.league_id # league_id \/ r.session_id # session_id}

\* C25: a refresh of (league L, session S) inserts, updates and deletes
\* draft-pick rows of (L, S) only: every step of a refresh leaves the rows of
\* every other league and of every other session of the same league as they
\* were, also when the refreshes run concurrently.
C25_SnapshotScoping ==
    [][ /\ \A r \in ScopeRequests :
              (ScopeClean(r) \/ ScopeExtract(r) \/ ScopeInsert(r)) =>
                 RowsOutside(draft_picks', reqs[r].league_id, reqs[r].session_id)
                    = RowsOutside(draft_picks, reqs[r].league_id, reqs[r].session_id)
        /\ (mfl' # mfl) =>
              RowsOutside(draft_picks', MflLeague, Session)
                 = RowsOutside(draft_picks, MflLeague, Session) ]_vars

\* all three refreshes have replaced the rows of their snapshots, and the
\* row of the league that nobody refreshed is still there
C25_Witness ==
    /\ \A r \in ScopeRequests : reqs[r].pc = "done" /\ reqs[r].picks # <<>>
    /\ mfl.pc = "returned" /\ ~mfl.txn_failed /\ mfl.entries # {}
    /\ \A r \in ScopeRequests :
          \E row \in draft_picks :
             /\ row.league_id = reqs[r].league_id
             /\ row.session_id = reqs[r].session_id
             /\ "year" \in DOMAIN row /\ row.roster_id # StalePick.roster_id
    /\ mfl.entries \subseteq draft_picks
    /\ \E row \in draft_picks : row.league_id = OtherLeague

(***************************************************************************)
(* Specification SpecWholesale: rank summary passes on one snapshot whose  *)
(* tables later refreshes rewrite: picks move, and a team gets a new       *)
(* manager.                                                                *)
(***************************************************************************)
\* the manager the platform reports for team T3 after the team changed hands
NewOwner == [id |-> "U4", displayName |-> "dave"]

\* a /roster refresh of the snapshot ran to completion after team T3 changed
\* hands: insert_fleaflicker_teams and insert_fleaflicker_league_rosters
\* stored T3's rows under the new manager
OwnerReplaced ==
    /\ pc = "agg"
    /\ \E r \in fleaflicker_teams : r.owner_id = StandingsOwner("T3").id
    /\ fleaflicker_teams' =
          {IF r.team_id = "T3"
           THEN [r EXCEPT !.owner_id = NewOwner.id,
                          !.owner_display_name = NewOwner.displayName]
           ELSE r : r \in fleaflicker_teams}
    /\ league_players' =
          {IF r.user_id = StandingsOwner("T3").id
           THEN [r EXCEPT !.user_id = NewOwner.id]
           ELSE r : r \in league_players}
    /\ UNCHANGED <<owned_by, chain, lists_lost, draft_picks,
                   sf_player_ranks, ranks_summary, rankings, pc, team_idx,
                   seen_picks, all_draft_picks, before, run_clean, last_run,
                   reqs, api_call, mfl, team_picks, naming,
                   db_state, mfl_direct>>

NextWholesale ==
    \/ \E src \in Sources : RanksSummaryPass(src)
    \/ \E ob \in [Picks -> Teams] : SnapshotRefreshed(ob)
    \/ OwnerReplaced

SpecWholesale == InitFrame /\ [][NextWholesale]_vars

\* C26: after an aggregation pass for a league and source, the rank rows of
\* that league and source are exactly those derived by the pass from the
\* current ledger, rosters and valuations: a manager absent from the pass
\* holds no rank value of the source.
C26_RecomputedWholesale ==
    [][ \A src \in Sources :
          RanksSummaryPass(src) =>
          {<<r.user_id, r.ranks[src]>> :
               r \in {x \in ranks_summary' :
                         x.league_id = League /\ src \in DOMAIN x.ranks}}
          = {<<k.user_id, [power_rank |-> k.power_rank,
                           starters_rank |-> k.starters_rank,
                           bench_rank |-> k.bench_rank,
                           picks_rank |-> k.picks_rank]>> : k \in rankings'} ]_vars

(***************************************************************************)
(* Specification SpecPool: get_db calls on the module globals pool and     *)
(* pool_lock of db.py, started while the pool is None.  A step runs a call *)
(* from one await that suspends it to the next.                            *)
(***************************************************************************)
MaxCallers == 2
MaxCalls == 2

Callers == 1..MaxCallers

\* pool_lock is held by the call lock, or by none
Unlocked == 0

\* InnerCheck without the test: the initialisation runs whenever the lock
\* has been taken
InnerCheck_Always(pool) == TRUE

\* "if pool is None:" inside "async with pool_lock" (line 59)
InnerCheck(pool) == pool = NULL

Rest_db == <<owned_by, chain, lists_lost, draft_picks, league_players,
             fleaflicker_teams, sf_player_ranks, ranks_summary, rankings, pc,
             team_idx, seen_picks, all_draft_picks, before, run_clean,
             last_run, reqs, api_call, mfl, team_picks, naming, mfl_direct>>

\* the call of c holds pool_lock: the inner check, and either the start of
\* init_db_pool (suspended in asyncpg.create_pool) or the release of the lock
\* and the check of line 63 up to pool.acquire()
InLock(st, c) ==
    IF InnerCheck(st.pool)
    THEN [st EXCEPT !.lock = c, !.running = @ + 1,
                    !.caller[c].pc = "init", !.caller[c].tried = TRUE]
    ELSE [st EXCEPT !.lock = Unlocked,
                    !.caller[c].pc = IF st.pool = NULL THEN "error" ELSE "acquire",
                    !.caller[c].err = IF st.pool = NULL THEN "not_initialized"
                                      ELSE @]

\* a get_db call starts: "if pool is None", then "async with pool_lock",
\* which takes a free lock at once and otherwise waits
GetDbStart(c) ==
    /\ pc = "pool"
    /\ db_state.caller[c].pc = "idle"
    /\ db_state.caller[c].calls < MaxCalls
    /\ LET st == [db_state EXCEPT !.caller[c].calls = @ + 1,
                                  !.caller[c].err = "none",
                                  !.caller[c].tried = FALSE]
       IN db_state' =
             IF st.pool # NULL THEN [st EXCEPT !.caller[c].pc = "acquire"]
             ELSE IF st.lock = Unlocked THEN InLock(st, c)
             ELSE [st EXCEPT !.caller[c].pc = "wait_lock"]
    /\ UNCHANGED Rest_db

\* pool_lock is released and the waiting call of c gets it
LockAcquired(c) ==
    /\ pc = "pool"
    /\ db_state.caller[c].pc = "wait_lock"
    /\ db_state.lock = Unlocked
    /\ db_state' = InLock(db_state, c)
    /\ UNCHANGED Rest_db

\* init_db_pool of c ends: create_pool returned a pool (ok), or an exception
\* was raised, pool = None is set and the exception re-raised through
\* "async with pool_lock" to the "except Exception" clause of get_db
InitDbPoolEnds(c, ok) ==
    /\ pc = "pool"
    /\ db_state.caller[c].pc = "init"
    /\ db_state' =
          IF ok
          THEN [db_state EXCEPT !.pool = [made_by |-> c, n |-> db_state.created + 1],
                                !.created = @ + 1, !.running = @ - 1,
                                !.lock = Unlocked, !.caller[c].pc = "acquire"]
          ELSE [db_state EXCEPT !.pool = NULL, !.failed = @ + 1,
                                !.running = @ - 1, !.lock = Unlocked,
                                !.caller[c].pc = "error",
                                !.caller[c].err = "init_failed"]
    /\ UNCHANGED Rest_db

\* "async with pool.acquire() as connection: yield connection"
PoolAcquire(c) ==
    /\ pc = "pool"
    /\ db_state.caller[c].pc = "acquire"
    /\ db_state' = [db_state EXCEPT !.caller[c].pc = "yielded",
                                    !.caller[c].conn_of = db_state.pool]
    /\ UNCHANGED Rest_db

\* the request of c is over (connection released, or the HTTPException sent)
CallEnds(c) ==
    /\ pc = "pool"
    /\ db_state.caller[c].pc \in {"yielded", "error"}
    /\ db_state' = [db_state EXCEPT !.caller[c].pc = "idle"]
    /\ UNCHANGED Rest_db

InitPool ==
    /\ owned_by = [k \in Picks |-> k.original]
    /\ chain = [k \in Picks |-> <<k.original>>]
    /\ lists_lost = FALSE
    /\ draft_picks = {}
    /\ league_players = {}
    /\ fleaflicker_teams = {}
    /\ sf_player_ranks = {}
    /\ ranks_summary = {}
    /\ rankings = {}
    /\ pc = "pool"
    /\ team_idx = 1
    /\ seen_picks = {}
    /\ all_draft_picks = <<>>
    /\ before = {}
    /\ run_clean = TRUE
    /\ last_run = NoRun
    /\ reqs = <<>>
    /\ api_call = <<>>
    /\ mfl = <<>>
    /\ team_picks = <<>>
    /\ naming = <<>>
    /\ db_state = [pool |-> NULL, lock |-> Unlocked, running |-> 0, created |-> 0,
                   failed |-> 0,
                   caller |-> [c \in Callers |->
                                 [pc |-> "idle", calls |-> 0, err |-> "none",
                                  tried |-> FALSE, conn_of |-> NULL]]]
    /\ mfl_direct = <<>>

NextPool ==
    \/ \E c \in Callers : GetDbStart(c)
    \/ \E c \in Callers : LockAcquired(c)
    \/ \E c \in Callers, ok \in BOOLEAN : InitDbPoolEnds(c, ok)
    \/ \E c \in Callers : PoolAcquire(c)
    \/ \E c \in Callers : CallEnds(c)

SpecPool == InitPool /\ [][NextPool]_vars

\* C28: for any number of get_db calls that start while the pool is None,
\* init_db_pool runs at most once at a time and the pool is created exactly
\* once, by the first initialisation that succeeds; a failed initialisation
\* leaves the pool None and gives its caller an error, and no call gives up
\* without having tried the initialisation itself.
C28_LazyPoolInit ==
    /\ db_state.running <= 1
    /\ db_state.created <= 1
    /\ (db_state.pool # NULL) <=> (db_state.created = 1)
    /\ db_state.running = 1 => db_state.lock # Unlocked /\ db_state.pool = NULL
    /\ \A c \in Callers :
          /\ db_state.caller[c].pc \in {"acquire", "yielded"} => db_state.pool # NULL
          /\ db_state.caller[c].pc = "yielded" =>
                db_state.caller[c].conn_of = db_state.pool
          /\ db_state.caller[c].pc = "error" =>
                /\ db_state.caller[c].err = "init_failed"
                /\ db_state.caller[c].tried

\* two calls started while the pool was None; the first initialisation
\* failed, its caller got the error, and the call that waited for the lock
\* ran the initialisation again and made the pool
C28_Witness ==
    /\ db_state.failed >= 1 /\ db_state.created = 1
    /\ \E c, d \in Callers :
          /\ c # d
          /\ db_state.caller[c].pc = "error" /\ db_state.caller[c].calls = 1
          /\ db_state.caller[d].pc = "yielded" /\ db_state.caller[d].calls = 1
          /\ db_state.caller[d].tried

(***************************************************************************)
(* Specification SpecDirect: handle_mfl_league_direct from the gather of   *)
(* the insert_mfl_league_rosters tasks to the release of the connection.   *)
(* Every task works on the one connection db of the request.  A statement  *)
(* is sent, completes on the server, and its task resumes: a task that     *)
(* sends while a statement of the connection is in flight gets asyncpg's   *)
(* InterfaceError (another operation is in progress).  A task that is      *)
(* ready to resume runs before any statement in flight completes.          *)
(***************************************************************************)
\* the franchises of the league in dynastr.managers: one task each
Franchises == {"0001", "0002"}

NoTask == "none"

\* the (franchise, player) pairs get_rosters returns; every task prepares
\* roster_entries for all of them
MflRostered == {<<"0001", "P1">>, <<"0002", "P2">>}

\* roster_entries of task t as rows of dynastr.league_players; 'by' tells the
\* rows of one INSERT from those of another, the table having no key
RosterEntries(t) ==
    {[session_id |-> Session, user_id |-> e[1], league_id |-> MflLeague,
      player_id |-> e[2], by |-> t] : e \in MflRostered}

\* rows of the snapshot left by an earlier load
StaleRosterRows ==
    {[session_id |-> Session, user_id |-> "0001", league_id |-> MflLeague,
      player_id |-> "P9", by |-> "earlier"]}

Rest_direct == <<owned_by, chain, lists_lost, draft_picks, fleaflicker_teams,
                 sf_player_ranks, ranks_summary, rankings, pc, team_idx,
                 seen_picks, all_draft_picks, before, run_clean, last_run,
                 reqs, api_call, mfl, team_picks, naming, db_state>>

Ready == {"start_done", "delete_done", "insert_done", "end_done"}

\* the task leaves by an exception: Transaction.__aexit__ cannot send its
\* rollback on the busy connection either, and the finally clauses of
\* asyncpg's Transaction forget the top-level transaction of the task
Raises(st, t) ==
    [st EXCEPT !.task[t].pc = "raised",
               !.top_xact = IF st.top_xact = t THEN NoTask ELSE @]

\* connection.execute(...) of task t: refused while a statement is in flight
Execute(st, t, next) ==
    IF st.busy # NoTask THEN Raises(st, t)
    ELSE [st EXCEPT !.busy = t, !.task[t].pc = next]

\* get_rosters and get_players of task t end; when they returned (ok) the
\* task builds roster_entries and enters "async with db.transaction()":
\* Transaction.start makes the transaction nested when the connection has a
\* top-level one, refuses when the server is in a transaction that is not
\* the connection's, and sends BEGIN or SAVEPOINT
RosterFetchEnds(t, ok) ==
    /\ pc = "direct"
    /\ mfl_direct.task[t].pc = "http"
    /\ mfl_direct' =
          IF ~ok THEN Raises(mfl_direct, t)
          ELSE IF mfl_direct.top_xact # NoTask
          THEN Execute([mfl_direct EXCEPT !.task[t].nested = TRUE], t, "start_sent")
          ELSE IF mfl_direct.in_txn
          THEN Raises(mfl_direct, t)
          ELSE IF mfl_direct.busy # NoTask
          THEN [mfl_direct EXCEPT !.task[t].pc = "raised", !.top_xact = t]
          ELSE Execute([mfl_direct EXCEPT !.top_xact = t], t, "start_sent")
    /\ UNCHANGED league_players
    /\ UNCHANGED Rest_direct

\* the statement of task t in flight completes on the server
StatementCompletes(t) ==
    /\ pc = "direct"
    /\ mfl_direct.busy = t
    /\ \A u \in Franchises : mfl_direct.task[u].pc \notin Ready
    /\ LET st == mfl_direct
           at == st.task[t].pc
           nested == st.task[t].nested
           visible == IF st.in_txn THEN st.work ELSE league_players
           refused == nested /\ at \in {"start_sent", "end_sent"} /\ ~st.in_txn
           written ==
              CASE at = "delete_sent" -> DeleteSnapshot(visible, MflLeague, Session)
                [] at = "insert_sent" -> visible \cup RosterEntries(t)
                [] OTHER -> visible
           commits == at = "end_sent" /\ ~nested
       IN /\ mfl_direct' =
                [st EXCEPT !.busy = NoTask,
                           !.task[t].pc =
                               CASE at = "start_sent" -> "start_done"
                                 [] at = "delete_sent" -> "delete_done"
                                 [] at = "insert_sent" -> "insert_done"
                                 [] OTHER -> "end_done",
                           !.task[t].refused = refused,
                           !.in_txn = IF at = "start_sent" /\ ~nested THEN TRUE
                                      ELSE IF commits THEN FALSE ELSE @,
                           !.work = IF commits THEN {} ELSE
                                    IF st.in_txn \/ (at = "start_sent" /\ ~nested)
                                    THEN written ELSE @]
          /\ league_players' = IF commits /\ st.in_txn THEN st.work
                               ELSE IF ~st.in_txn /\ ~(at = "start_sent" /\ ~nested)
                               THEN written
                               ELSE league_players
    /\ UNCHANGED Rest_direct

\* task t resumes after its statement: an error of the server is raised,
\* otherwise the next statement of the transaction block is sent, and after
\* COMMIT or RELEASE SAVEPOINT the task returns len(roster_entries)
TaskResumes(t) ==
    /\ pc = "direct"
    /\ mfl_direct.task[t].pc \in Ready
    /\ LET st == mfl_direct
           at == st.task[t].pc
       IN mfl_direct' =
             IF st.task[t].refused THEN Raises(st, t)
             ELSE CASE at = "start_done" -> Execute(st, t, "delete_sent")
                    [] at = "delete_done" -> Execute(st, t, "insert_sent")
                    [] at = "insert_done" -> Execute(st, t, "end_sent")
                    [] OTHER ->
                         [st EXCEPT !.task[t].pc = "returned",
                                    !.top_xact = IF st.top_xact = t THEN NoTask
                                                 ELSE @]
    /\ UNCHANGED league_players
    /\ UNCHANGED Rest_direct

\* asyncio.gather returns: successful_rosters counts the results that are
\* not exceptions, the response is built, and get_db releases the
\* connection to the pool, whose reset rolls back a transaction left open
HandlerReturns ==
    /\ pc = "direct"
    /\ mfl_direct.rosters_loaded = NullNum
    /\ \A t \in Franchises : mfl_direct.task[t].pc \in {"returned", "raised"}
    /\ mfl_direct' =
          [mfl_direct EXCEPT
              !.rosters_loaded =
                  Num(Cardinality({t \in Franchises :
                                      mfl_direct.task[t].pc = "returned"})),
              !.in_txn = FALSE, !.work = {}, !.top_xact = NoTask]
    /\ UNCHANGED league_players
    /\ UNCHANGED Rest_direct

InitDirect ==
    /\ owned_by = [k \in Picks |-> k.original]
    /\ chain = [k \in Picks |-> <<k.original>>]
    /\ lists_lost = FALSE
    /\ draft_picks = {}
    /\ league_players \in {{}, StaleRosterRows}
    /\ fleaflicker_teams = {}
    /\ sf_player_ranks = {}
    /\ ranks_summary = {}
    /\ rankings = {}
    /\ pc = "direct"
    /\ team_idx = 1
    /\ seen_picks = {}
    /\ all_draft_picks = <<>>
    /\ before = {}
    /\ run_clean = TRUE
    /\ last_run = NoRun
    /\ reqs = <<>>
    /\ api_call = <<>>
    /\ mfl = <<>>
    /\ team_picks = <<>>
    /\ naming = <<>>
    /\ db_state = <<>>
    /\ mfl_direct = [task |-> [t \in Franchises |->
                                 [pc |-> "http", nested |-> FALSE,
                                  refused |-> FALSE]],
                     busy |-> NoTask, top_xact |-> NoTask, in_txn |-> FALSE,
                     work |-> {}, rosters_loaded |-> NullNum]

NextDirect ==
    \/ \E t \in Franchises, ok \in BOOLEAN : RosterFetchEnds(t, ok)
    \/ \E t \in Franchises : StatementCompletes(t)
    \/ \E t \in Franchises : TaskResumes(t)
    \/ HandlerReturns

SpecDirect == InitDirect /\ [][NextDirect]_vars

\* C30: when the gathered tasks have all finished, league_players holds each
\* rostered (franchise, player) pair of the league and session exactly once,
\* for every interleaving of the tasks, and rosters_loaded counts exactly
\* the tasks that did not raise.
C30_GatheredRosterTasks ==
    mfl_direct.rosters_loaded # NullNum =>
    /\ \A e \in MflRostered :
          Cardinality({r \in league_players :
                          /\ r.session_id = Session /\ r.league_id = MflLeague
                          /\ r.user_id = e[1] /\ r.player_id = e[2]}) = 1
    /\ mfl_direct.rosters_loaded =
          Num(Cardinality({t \in Franchises : mfl_direct.task[t].pc # "raised"}))

====
